---- MODULE Spec2Model ----
(***************************************************************************)
(* Model of the log-analysis core of databricks_log_agent                  *)
(* (src/src/utils/log_analyzer.py): the pattern catalog, the chunker, the   *)
(* scorer, the categorizer, the deduper, the iterative controller and the   *)
(* summarizer of class LogAnalyzer.                                        *)
(*                                                                         *)
(* Numbers: priority scores are kept in hundredths (1.0 -> 100) and token   *)
(* estimates in tenths (words * 1.3 -> words * 13), so that the floats of   *)
(* the source are exact integers here.                                     *)
(* Text: a log line is one of a fixed vocabulary of concrete lines (see     *)
(* LineText); a string is characterised by its leading blanks and its      *)
(* words' lengths, which is what str.split(), len() and slicing read.       *)
(***************************************************************************)
EXTENDS Integers, Sequences, FiniteSets, TLC

(***************************************************************************)
(* Bounds of the model.                                                    *)
(***************************************************************************)
MaxBody == 2          \* lines of a free-form log document
MaxIterArg == 4       \* largest max_iterations argument tried
MaxErrList == 3       \* length of the ErrorSummary lists given to the deduper
MaxFreq == 2          \* largest frequency in those lists
MaxNameParts == 2     \* parts of a file name given to the role classifiers

(***************************************************************************)
(* Generic helpers.                                                        *)
(***************************************************************************)
Min(a, b) == IF a <= b THEN a ELSE b

Range(s) == {s[i] : i \in 1..Len(s)}

Prefix(s, n) == SubSeq(s, 1, Min(n, Len(s)))

\* the element of a one-element set.  Only({e(v) : v \in {x}}) is e with v
\* bound to the value of x: a local variable, assigned once, read many times
Only(S) == CHOOSE x \in S : TRUE

RECURSIVE SumSeq(_)
SumSeq(s) == IF s = <<>> THEN 0 ELSE Head(s) + SumSeq(Tail(s))

RECURSIVE SelectSeqBy(_, _)
\* list comprehension [x for x in s if x in keep]
SelectSeqBy(s, keep) ==
    IF s = <<>> THEN <<>>
    ELSE IF Head(s) \in keep THEN <<Head(s)>> \o SelectSeqBy(Tail(s), keep)
         ELSE SelectSeqBy(Tail(s), keep)

(***************************************************************************)
(* Python's sorted(s, key=..., reverse=True) is a stable sort: elements of  *)
(* equal key keep their input order.  Keys are pairs <<major, minor>>       *)
(* compared lexicographically.                                             *)
(***************************************************************************)
KeyGreater(k1, k2) == \/ k1[1] > k2[1]
                      \/ (k1[1] = k2[1] /\ k1[2] > k2[2])

\* index j comes before index i in the sorted order
SortsBefore(keys, j, i) == KeyGreater(keys[j], keys[i]) \/ (keys[j] = keys[i] /\ j < i)

\* the index of the element that the sorted order puts at position p
IndexAt(keys, p) ==
    CHOOSE i \in 1..Len(keys) :
        Cardinality({j \in 1..Len(keys) : SortsBefore(keys, j, i)}) = p - 1

\* sorted(s, key=..., reverse=True), keys[i] being the key of s[i]
SortedDesc(s, keys) ==
    Only({[p \in 1..Len(k) |-> s[IndexAt(k, p)]] : k \in {keys}})

(***************************************************************************)
(* Pattern catalog: LogAnalyzer.__init__, self.error_patterns.  The dict    *)
(* is modelled by the sequence of its keys in insertion order; the entries  *)
(* (severity, category label, priority) are immutable and looked up by key. *)
(***************************************************************************)
FullCatalog ==
    << "memory_errors", "spark_sql_errors", "spark_execution_errors",
       "application_errors", "io_errors", "network_errors",
       "serialization_errors", "config_errors", "auth_errors",
       "database_errors", "performance_issues", "critical_keywords" >>

CategoryNames == Range(FullCatalog)

\* self.error_patterns is a public attribute.  A category a host adds to it:
\* {'patterns': ['(unclosed', 'refused'], 'severity': 'high',
\*  'category': 'Network', 'priority': 10}; its first pattern does not compile.
CustomCategory == "custom_errors"

\* the category holds a pattern at which re.findall raises re.error
Malformed(cat) == cat = CustomCategory

Severity(cat) ==
    CASE cat = "memory_errors" -> "critical"
      [] cat \in {"network_errors", "config_errors", "performance_issues",
                  "critical_keywords"} -> "medium"
      [] OTHER -> "high"

CategoryLabel(cat) ==
    CASE cat = "memory_errors" -> "Memory Management"
      [] cat = "spark_sql_errors" -> "SQL Analysis"
      [] cat = "spark_execution_errors" -> "Spark Execution"
      [] cat = "application_errors" -> "Application Runtime"
      [] cat = "io_errors" -> "File I/O"
      [] cat = "network_errors" -> "Network"
      [] cat = "serialization_errors" -> "Serialization"
      [] cat = "config_errors" -> "Configuration"
      [] cat = "auth_errors" -> "Authentication & Security"
      [] cat = "database_errors" -> "Database"
      [] cat = "performance_issues" -> "Performance"
      [] cat = "critical_keywords" -> "Critical Keywords"
      [] cat = CustomCategory -> "Network"

PriorityWeight(cat) ==
    CASE cat = "memory_errors" -> 100
      [] cat = "spark_sql_errors" -> 90
      [] cat = "spark_execution_errors" -> 85
      [] cat = "application_errors" -> 80
      [] cat = "io_errors" -> 75
      [] cat = "network_errors" -> 70
      [] cat = "serialization_errors" -> 65
      [] cat = "config_errors" -> 60
      [] cat = "auth_errors" -> 55
      [] cat = "database_errors" -> 50
      [] cat = "performance_issues" -> 45
      [] cat = "critical_keywords" -> 40
      [] cat = CustomCategory -> 10

\* severity_weight of _calculate_priority_score
SeverityWeight(sev) ==
    CASE sev = "critical" -> 5
      [] sev = "high" -> 3
      [] sev = "medium" -> 2
      [] sev = "low" -> 1

\* severity_priority of _analyze_errors
SeverityPriority(sev) ==
    CASE sev = "critical" -> 4
      [] sev = "high" -> 3
      [] sev = "medium" -> 2
      [] sev = "low" -> 1
      [] OTHER -> 0

\* Python compares the severity strings themselves in analyze_logs_iteratively:
\* 'critical' < 'high' < 'low' < 'medium' in code-point order.
StringOrder(sev) ==
    CASE sev = "critical" -> 1
      [] sev = "high" -> 2
      [] sev = "low" -> 3
      [] sev = "medium" -> 4

(***************************************************************************)
(* The vocabulary of log lines.                                            *)
(*   info   INFO Starting application                                      *)
(*   oom    ERROR java.lang.OutOfMemoryError: Java heap space              *)
(*   gc     GC overhead limit exceeded                                     *)
(*   sql    ERROR org.apache.spark.sql.AnalysisException: Table not found  *)
(*   fatal  FATAL ERROR: System crashed unexpectedly                       *)
(*   net    Connection refused by host                                     *)
(*   blank  (the empty line)                                               *)
(*   ws     (three blanks)                                                 *)
(*   long   x x x ... x   (300 one-letter words)                           *)
(* LineText gives a line's leading blanks and the lengths of its words     *)
(* as runs <<count, length>>; words are separated by one blank.            *)
(***************************************************************************)
LineKinds == {"info", "oom", "gc", "sql", "fatal", "net", "blank", "ws", "long"}

LineText(k) ==
    CASE k = "info"  -> [lead |-> 0, runs |-> <<<<1, 4>>, <<1, 8>>, <<1, 11>>>>]
      [] k = "oom"   -> [lead |-> 0, runs |-> <<<<1, 5>>, <<1, 27>>, <<2, 4>>, <<1, 5>>>>]
      [] k = "gc"    -> [lead |-> 0, runs |-> <<<<1, 2>>, <<1, 8>>, <<1, 5>>, <<1, 8>>>>]
      [] k = "sql"   -> [lead |-> 0, runs |-> <<<<1, 5>>, <<1, 39>>, <<1, 5>>, <<1, 3>>, <<1, 5>>>>]
      [] k = "fatal" -> [lead |-> 0, runs |-> <<<<1, 5>>, <<2, 6>>, <<1, 7>>, <<1, 12>>>>]
      [] k = "net"   -> [lead |-> 0, runs |-> <<<<1, 10>>, <<1, 7>>, <<1, 2>>, <<1, 4>>>>]
      [] k = "blank" -> [lead |-> 0, runs |-> <<>>]
      [] k = "ws"    -> [lead |-> 3, runs |-> <<>>]
      [] k = "long"  -> [lead |-> 0, runs |-> <<<<300, 1>>>>]

\* len(re.findall(p, line, re.IGNORECASE)) summed over the patterns p of a category
PatternMatches(cat, k) ==
    CASE cat = "memory_errors" /\ k = "oom" -> 2
      [] cat = "memory_errors" /\ k = "gc" -> 1
      [] cat = "spark_sql_errors" /\ k = "sql" -> 2
      [] cat = "application_errors" /\ k = "fatal" -> 2
      [] cat = "critical_keywords" /\ k = "fatal" -> 1
      [] cat = "network_errors" /\ k = "net" -> 1
      [] cat = CustomCategory /\ k = "net" -> 1
      [] OTHER -> 0

\* the error_keywords loop of _calculate_priority_score: sum of matches * weight
KeywordScore(k) ==
    CASE k \in {"oom", "sql"} -> 150      \* error
      [] k = "fatal" -> 350               \* fatal + error
      [] OTHER -> 0

\* search_query is None, the literal "exceeded" or the literal "starting"
NoQuery == "None"
Queries == {NoQuery, "exceeded", "starting"}

\* len(re.findall(re.escape(search_query), line, re.IGNORECASE))
QueryMatches(q, k) ==
    IF q = "exceeded" /\ k = "gc" THEN 1
    ELSE IF q = "starting" /\ k = "info" THEN 1
    ELSE 0

(***************************************************************************)
(* Strings by size: characters, words, and the words of a slice s[:n].     *)
(***************************************************************************)
RECURSIVE RunsWords(_)
RunsWords(runs) == IF runs = <<>> THEN 0 ELSE Head(runs)[1] + RunsWords(Tail(runs))

RECURSIVE RunsLetters(_)
RunsLetters(runs) ==
    IF runs = <<>> THEN 0 ELSE Head(runs)[1] * Head(runs)[2] + RunsLetters(Tail(runs))

LineWords(k) == RunsWords(LineText(k).runs)

LineChars(k) ==
    LET w == LineWords(k)
    IN  LineText(k).lead + RunsLetters(LineText(k).runs) + (IF w > 0 THEN w - 1 ELSE 0)

RECURSIVE RunsSliceWords(_, _)
\* words that have at least one letter among the first n characters of the
\* text made of these runs, each word followed by one separator
RunsSliceWords(runs, n) ==
    IF runs = <<>> \/ n <= 0 THEN 0
    ELSE LET cnt == Head(runs)[1]
             len == Head(runs)[2]
             span == cnt * (len + 1)
         IN  IF n >= span THEN cnt + RunsSliceWords(Tail(runs), n - span)
             ELSE (n + len) \div (len + 1)

LineSliceWords(k, n) == RunsSliceWords(LineText(k).runs, n - LineText(k).lead)

\* '\n'.join(lines): a chunk's content is the sequence of its lines
RECURSIVE ContentChars(_)
ContentChars(lines) ==
    IF lines = <<>> THEN 0
    ELSE LineChars(Head(lines))
         + (IF Len(lines) > 1 THEN 1 + ContentChars(Tail(lines)) ELSE 0)

RECURSIVE ContentWords(_)
ContentWords(lines) ==
    IF lines = <<>> THEN 0 ELSE LineWords(Head(lines)) + ContentWords(Tail(lines))

RECURSIVE ContentSliceWords(_, _)
\* len(content[:n].split())
ContentSliceWords(lines, n) ==
    IF lines = <<>> \/ n <= 0 THEN 0
    ELSE LineSliceWords(Head(lines), n)
         + ContentSliceWords(Tail(lines), n - LineChars(Head(lines)) - 1)

\* len(content.strip()) == 0
IsBlankContent(lines) == ContentWords(lines) = 0

(***************************************************************************)
(* File names are sequences of name parts ("driver", "stderr", ...), which  *)
(* is what the substring tests of _determine_log_type read.  A name holds   *)
(* no blank, so it is one word of any text it is rendered into.            *)
(***************************************************************************)
Lower(part) ==
    CASE part = "STDERR" -> "stderr"
      [] part = "Driver" -> "driver"
      [] part = "GZ" -> "gz"
      [] OTHER -> part

Contains(file_name, sub) == \E i \in 1..Len(file_name) : Lower(file_name[i]) = sub

\* LogAnalyzer._determine_log_type
DetermineLogType(file_name) ==
    IF Contains(file_name, "stderr") THEN "stderr"
    ELSE IF Contains(file_name, "stdout") THEN "stdout"
    ELSE IF Contains(file_name, "log4j") THEN "log4j"
    ELSE IF Contains(file_name, "driver") THEN "driver"
    ELSE IF Contains(file_name, "executor") THEN "executor"
    ELSE "unknown"

\* log_type_weights of _calculate_priority_score, with its default of 0.1
LogTypeWeight(log_type) ==
    CASE log_type = "stderr" -> 100
      [] log_type = "log4j" -> 80
      [] log_type = "driver" -> 90
      [] log_type = "executor" -> 70
      [] log_type = "stdout" -> 30
      [] OTHER -> 10

(***************************************************************************)
(* Scorer: LogAnalyzer._calculate_priority_score and _find_error_indicators *)
(* over the catalog that self.error_patterns holds when they run.          *)
(***************************************************************************)
RECURSIVE ContentMatches(_, _)
ContentMatches(cat, lines) ==
    IF lines = <<>> THEN 0
    ELSE PatternMatches(cat, Head(lines)) + ContentMatches(cat, Tail(lines))

RECURSIVE ContentKeywordScore(_)
ContentKeywordScore(lines) ==
    IF lines = <<>> THEN 0
    ELSE KeywordScore(Head(lines)) + ContentKeywordScore(Tail(lines))

RECURSIVE ContentQueryMatches(_, _)
ContentQueryMatches(q, lines) ==
    IF lines = <<>> THEN 0
    ELSE QueryMatches(q, Head(lines)) + ContentQueryMatches(q, Tail(lines))

RECURSIVE CatalogScore(_, _)
\* the loop over self.error_patterns.items()
CatalogScore(lines, catalog) ==
    IF catalog = <<>> THEN 0
    ELSE ContentMatches(Head(catalog), lines)
           * SeverityWeight(Severity(Head(catalog))) * PriorityWeight(Head(catalog))
         + CatalogScore(lines, Tail(catalog))

QueryWeight == 200

\* faulty variant: the category term is taken over the whole catalog
CalculatePriorityScoreFullCatalog(lines, log_type, search_query, catalog) ==
    LogTypeWeight(log_type)
    + CatalogScore(lines, FullCatalog)
    + (IF search_query # NoQuery
       THEN ContentQueryMatches(search_query, lines) * QueryWeight ELSE 0)
    + ContentKeywordScore(lines)

CalculatePriorityScore(lines, log_type, search_query, catalog) ==
    LogTypeWeight(log_type)
    + CatalogScore(lines, catalog)
    + (IF search_query # NoQuery
       THEN ContentQueryMatches(search_query, lines) * QueryWeight ELSE 0)
    + ContentKeywordScore(lines)

RECURSIVE FindErrorIndicatorsFullCatalog(_, _)
\* faulty variant: the patterns of the whole catalog are searched, whatever
\* self.error_patterns holds
FindErrorIndicatorsFullCatalog(lines, catalog) ==
    IF catalog = <<>> THEN SelectSeqBy(FullCatalog, {cat \in Range(FullCatalog) :
                                                      ContentMatches(cat, lines) > 0})
    ELSE FindErrorIndicatorsFullCatalog(lines, Tail(catalog))

RECURSIVE FindErrorIndicators(_, _)
FindErrorIndicators(lines, catalog) ==
    IF catalog = <<>> THEN <<>>
    ELSE (IF ContentMatches(Head(catalog), lines) > 0 THEN <<Head(catalog)>> ELSE <<>>)
         \o FindErrorIndicators(lines, Tail(catalog))

(***************************************************************************)
(* Chunker: LogAnalyzer._chunk_and_prioritize_logs.  log_content is the     *)
(* dict as a sequence of [file_name, lines]; lines is content.split('\n'),  *)
(* which is never empty.                                                   *)
(***************************************************************************)
LinesPerChunk(size) == size \div 100

\* range(0, len(lines), 0) raises ValueError("range() arg 3 must not be zero")
ChunkerRaises(log_content, size) == log_content # <<>> /\ LinesPerChunk(size) = 0

\* re.findall(pattern, content, re.IGNORECASE) of _calculate_priority_score
\* raises re.error at a malformed pattern, whatever the content: the first
\* chunk that is scored raises if the catalog holds one
ScorerRaises(log_content, catalog) ==
    /\ \E i \in 1..Len(catalog) : Malformed(catalog[i])
    /\ \E f \in 1..Len(log_content) : ~IsBlankContent(log_content[f].lines)

\* lines[i:i + n] for i in range(0, len(lines), n)
Windows(lines, n) ==
    [w \in 1..((Len(lines) + n - 1) \div n) |->
        SubSeq(lines, (w - 1) * n + 1, Min(w * n, Len(lines)))]

RECURSIVE FileChunks(_, _, _, _)
\* the chunks of one file, without their chunk_id
FileChunks(file_name, windows, search_query, catalog) ==
    IF windows = <<>> THEN <<>>
    ELSE (IF IsBlankContent(Head(windows)) THEN <<>>
          ELSE << [content |-> Head(windows),
                   chunk_id |-> 0,
                   file_name |-> file_name,
                   log_type |-> DetermineLogType(file_name),
                   priority_score |->
                       CalculatePriorityScore(Head(windows), DetermineLogType(file_name),
                                              search_query, catalog),
                   error_indicators |-> FindErrorIndicators(Head(windows), catalog)] >>)
         \o FileChunks(file_name, Tail(windows), search_query, catalog)

RECURSIVE AllChunks(_, _, _, _)
AllChunks(log_content, search_query, catalog, size) ==
    IF log_content = <<>> THEN <<>>
    ELSE Only({FileChunks(Head(log_content).file_name, windows, search_query, catalog) :
                  windows \in {Windows(Head(log_content).lines, LinesPerChunk(size))}})
         \o AllChunks(Tail(log_content), search_query, catalog, size)

\* chunk_id counts the emitted chunks from 0
NumberChunks(chunks) == [i \in 1..Len(chunks) |-> [chunks[i] EXCEPT !.chunk_id = i - 1]]

ScoreKeys(chunks) == [i \in 1..Len(chunks) |-> <<chunks[i].priority_score, 0>>]

ChunkAndPrioritizeLogs(log_content, search_query, catalog, size) ==
    Only({SortedDesc(chunks, ScoreKeys(chunks)) :
             chunks \in {Only({NumberChunks(emitted) :
                                 emitted \in {AllChunks(log_content, search_query,
                                                        catalog, size)}})}})

(***************************************************************************)
(* Categorizer: LogAnalyzer._analyze_errors.                               *)
(***************************************************************************)
RECURSIVE Indicators(_)
\* every error_indicator of every chunk, in the order the loops visit them
Indicators(chunks) ==
    IF chunks = <<>> THEN <<>>
    ELSE Head(chunks).error_indicators \o Indicators(Tail(chunks))

RECURSIVE FirstSeen(_, _)
\* the keys of error_counts in insertion order
FirstSeen(s, seen) ==
    IF s = <<>> THEN <<>>
    ELSE IF Head(s) \in seen THEN FirstSeen(Tail(s), seen)
         ELSE <<Head(s)>> \o FirstSeen(Tail(s), seen \cup {Head(s)})

RECURSIVE CarrierFiles(_, _)
\* file names of the chunks that carry the indicator, in chunk order
CarrierFiles(chunks, cat) ==
    IF chunks = <<>> THEN <<>>
    ELSE (IF cat \in Range(Head(chunks).error_indicators)
          THEN <<Head(chunks).file_name>> ELSE <<>>)
         \o CarrierFiles(Tail(chunks), cat)

MaxExamples == 3

RECURSIVE MatchCount(_, _)
MatchCount(chunks, cat) ==
    IF chunks = <<>> THEN 0
    ELSE ContentMatches(cat, Head(chunks).content) + MatchCount(Tail(chunks), cat)

\* faulty variant: frequency counts the matches, not the chunks
MakeSummaryMatchesCounted(chunks, cat) ==
    [error_type |-> cat,
     description |-> CategoryLabel(cat),
     frequency |-> MatchCount(chunks, cat),
     severity |-> Severity(cat),
     suggested_solution |-> CategoryLabel(cat),
     relevant_logs |-> Prefix(CarrierFiles(chunks, cat), MaxExamples)]

MakeSummary(chunks, cat) ==
    [error_type |-> cat,
     description |-> CategoryLabel(cat),
     frequency |-> Len(CarrierFiles(chunks, cat)),
     severity |-> Severity(cat),
     suggested_solution |-> CategoryLabel(cat),
     relevant_logs |-> Prefix(CarrierFiles(chunks, cat), MaxExamples)]

SeverityKeys(errors) ==
    [i \in 1..Len(errors) |-> <<SeverityPriority(errors[i].severity), errors[i].frequency>>]

AnalyzeErrors(chunks, catalog) ==
    Only({SortedDesc(summaries, SeverityKeys(summaries)) :
             summaries \in
                 {Only({[i \in 1..Len(found) |-> MakeSummary(chunks, found[i])] :
                          found \in {SelectSeqBy(FirstSeen(Indicators(chunks), {}),
                                                 Range(catalog))}})}})

(***************************************************************************)
(* Deduper: LogAnalyzer._deduplicate_errors.                               *)
(***************************************************************************)
ErrorKey(e) == <<e.error_type, e.description>>

\* faulty variant of the inner loop: a repeated key is found, its frequency lost
MergeFrequencyLost(unique, error) == unique

RECURSIVE MergeFrequency(_, _)
\* the inner loop: the first existing entry with the key gets the frequency
MergeFrequency(unique, error) ==
    IF unique = <<>> THEN <<>>
    ELSE IF ErrorKey(Head(unique)) = ErrorKey(error)
         THEN <<[Head(unique) EXCEPT !.frequency = @ + error.frequency]>> \o Tail(unique)
         ELSE <<Head(unique)>> \o MergeFrequency(Tail(unique), error)

RECURSIVE DedupLoop(_, _)
DedupLoop(unique, errors) ==
    IF errors = <<>> THEN unique
    ELSE Only({DedupLoop(merged, Tail(errors)) :
                  merged \in
                      {IF ErrorKey(Head(errors))
                            \notin {ErrorKey(unique[i]) : i \in 1..Len(unique)}
                       THEN Append(unique, Head(errors))
                       ELSE MergeFrequency(unique, Head(errors))}})

DeduplicateErrors(errors) == DedupLoop(<<>>, errors)

(***************************************************************************)
(* Summarizer: _estimate_tokens, _truncate_to_token_limit,                 *)
(* _create_optimized_summary and _create_iterative_summary.  A rendered    *)
(* text is modelled by its number of words, the only thing the token       *)
(* estimate and the truncation read.                                       *)
(***************************************************************************)
\* _estimate_tokens in tenths of a token: len(text.split()) * 1.3
EstimateTokens(words) == words * 13

\* a token count in the unit of EstimateTokens
Tokens(n) == n * 10

\* "... (Content truncated to stay within N token limit)"
NoticeWords == 9

\* int(self.max_token_limit / 1.3)
TargetWords(limit) == Tokens(limit) \div 13

\* words of the text _truncate_to_token_limit returns for a text of `words` words
TruncateToTokenLimit(words, limit) ==
    IF words <= TargetWords(limit) THEN words
    ELSE TargetWords(limit) + NoticeWords

\* words of f"  Solution: {suggested_solution[:n]}..." for the joined templates
\* of a category label, n = 150 (iterative summary) and n = 200 (summary)
SolutionWords(label, n) ==
    LET w == CASE label = "Memory Management" -> <<16, 22>>
               [] label = "SQL Analysis" -> <<21, 26>>
               [] label = "Spark Execution" -> <<19, 23>>
               [] label = "Application Runtime" -> <<25, 31>>
               [] label = "File I/O" -> <<24, 30>>
               [] label = "Network" -> <<21, 25>>
               [] label = "Serialization" -> <<19, 27>>
               [] label = "Configuration" -> <<18, 25>>
               [] label = "Authentication & Security" -> <<22, 29>>
               [] label = "Database" -> <<21, 27>>
               [] label = "Performance" -> <<21, 26>>
               [] label = "Critical Keywords" -> <<22, 28>>
    IN  IF n = 150 THEN w[1] ELSE w[2]

\* one excerpt: the "--- Excerpt i from f ---" line (6 words), the
\* "Priority: p | Errors: [...]" line, content[:cut] and the truncation marker
ExcerptWords(chunk, cut) ==
    6
    + 4 + (IF chunk.error_indicators = <<>> THEN 1 ELSE Len(chunk.error_indicators))
    + ContentSliceWords(chunk.content, cut)
    + (IF ContentChars(chunk.content) > cut THEN 2 ELSE 0)

RECURSIVE ExcerptsWords(_, _)
ExcerptsWords(chunks, cut) ==
    IF chunks = <<>> THEN 0
    ELSE ExcerptWords(Head(chunks), cut) + ExcerptsWords(Tail(chunks), cut)

RECURSIVE ErrorLinesWords(_, _, _)
\* per error: its headline of `head` words and its solution line
ErrorLinesWords(errors, head, n) ==
    IF errors = <<>> THEN 0
    ELSE head + SolutionWords(Head(errors).suggested_solution, n)
         + ErrorLinesWords(Tail(errors), head, n)

RECURSIVE WithSeverity(_, _)
\* [e for e in errors if e.severity == sev]
WithSeverity(errors, sev) ==
    IF errors = <<>> THEN <<>>
    ELSE (IF Head(errors).severity = sev THEN <<Head(errors)>> ELSE <<>>)
         \o WithSeverity(Tail(errors), sev)

\* words of full_summary in _create_optimized_summary
OptimizedSummaryWords(chunks, error_summary) ==
    5
    + (IF error_summary # <<>>
       THEN 2 + ErrorLinesWords(Prefix(error_summary, 5), 6, 200) ELSE 0)
    + 4
    + ExcerptsWords(Prefix(chunks, 5), 1000)

\* words of full_summary in _create_iterative_summary
IterativeSummaryWords(chunks, errors, iteration_results) ==
    6 + 5 + 2 + 11 * Len(iteration_results)
    + Only({IF critical_errors # <<>>
            THEN 4 + ErrorLinesWords(critical_errors, 4, 150) ELSE 0 :
               critical_errors \in {WithSeverity(errors, "critical")}})
    + Only({IF high_errors # <<>>
            THEN 4 + ErrorLinesWords(high_errors, 4, 150) ELSE 0 :
               high_errors \in {Prefix(WithSeverity(errors, "high"), 3)}})
    + 5
    + Only({ExcerptsWords(top_chunks, 800) :
               top_chunks \in {Prefix(SortedDesc(chunks, ScoreKeys(chunks)), 3)}})

\* the text a summarizer returns: truncated if its estimate exceeds the limit
BoundedSummary(words, limit) ==
    IF EstimateTokens(words) > Tokens(limit)
    THEN TruncateToTokenLimit(words, limit)
    ELSE words

CreateOptimizedSummary(chunks, error_summary, limit) ==
    BoundedSummary(OptimizedSummaryWords(chunks, error_summary), limit)

CreateIterativeSummary(chunks, errors, iteration_results, limit) ==
    BoundedSummary(IterativeSummaryWords(chunks, errors, iteration_results), limit)

(***************************************************************************)
(* Iterative controller: the pieces of analyze_logs_iteratively and         *)
(* _analyze_iteration.                                                     *)
(***************************************************************************)
PriorityKeys(catalog) == [i \in 1..Len(catalog) |-> <<PriorityWeight(catalog[i]), 0>>]

\* sorted(self.error_patterns.items(), key=priority, reverse=True)
SortedPatterns(catalog) == SortedDesc(catalog, PriorityKeys(catalog))

\* faulty variant: the tiers counted from round 1 instead of round 0
TargetPatternsOneBased(sorted_patterns, iteration) ==
    IF iteration <= 1 THEN Prefix(sorted_patterns, 3)
    ELSE IF iteration = 2 THEN Prefix(sorted_patterns, 6)
    ELSE sorted_patterns

\* target_patterns of round `iteration` (0-based)
TargetPatterns(sorted_patterns, iteration) ==
    IF iteration = 0 THEN Prefix(sorted_patterns, 3)
    ELSE IF iteration = 1 THEN Prefix(sorted_patterns, 6)
    ELSE sorted_patterns

\* chunk_limit of round `iteration` (0-based)
ChunkLimit(iteration) ==
    IF iteration = 0 THEN 5 ELSE IF iteration = 1 THEN 10 ELSE 20

RECURSIVE SampleWords(_)
\* words of '\n'.join(chunk.content[:500] for chunk in chunks)
SampleWords(chunks) ==
    IF chunks = <<>> THEN 0
    ELSE ContentSliceWords(Head(chunks).content, 500) + SampleWords(Tail(chunks))

\* faulty variant: the estimate is returned without the clamp to the budget
TokenUsageUnclamped(limited_chunks, token_budget) ==
    EstimateTokens(SampleWords(Prefix(limited_chunks, 5)))

\* token_usage of _analyze_iteration, in tenths
TokenUsage(limited_chunks, token_budget) ==
    Min(EstimateTokens(SampleWords(Prefix(limited_chunks, 5))), token_budget)

\* faulty variant: a critical finding ends the loop in any round
CriticalBreakAnyRound(errors, iteration) == WithSeverity(errors, "critical") # <<>>

\* "if critical_errors and iteration == 0: break"
CriticalBreak(errors, iteration) ==
    WithSeverity(errors, "critical") # <<>> /\ iteration = 0

\* faulty variant: the loop ends only once the budget is used up
BudgetBreakExhausted(token_budget) == token_budget <= 0

\* "if token_budget < 1000: break"
BudgetBreak(token_budget) == token_budget < Tokens(1000)

\* faulty variant: one round too many
HasRoundInclusive(iteration, max_iterations) == iteration <= max_iterations

\* "for iteration in range(max_iterations)": is there a round `iteration`?
HasRound(iteration, max_iterations) == iteration < max_iterations

StringKeys(errors) ==
    [i \in 1..Len(errors) |-> <<StringOrder(errors[i].severity), errors[i].frequency>>]

\* sorted(unique_errors, key=lambda x: (x.severity, x.frequency), reverse=True)
SortFinalErrors(unique_errors) ==
    Only({SortedDesc(errors, StringKeys(errors)) : errors \in {unique_errors}})

(***************************************************************************)
(* Inputs.                                                                 *)
(***************************************************************************)
BodyKinds == {"info", "oom", "gc", "sql", "fatal", "net", "blank"}

\* the kinds of line that match a pattern of the catalog
ErrorKinds == {"oom", "gc", "sql", "fatal", "net"}

RECURSIVE SeqsUpTo(_, _)
\* the sequences over S of length 0..n
SeqsUpTo(S, n) ==
    IF n = 0 THEN {<<>>}
    ELSE LET shorter == SeqsUpTo(S, n - 1)
         IN  shorter \cup {Append(t, x) : t \in {u \in shorter : Len(u) = n - 1}, x \in S}

Repeat(k, n) == [i \in 1..n |-> k]

\* paddings: many lines of one kind, to reach the chunk caps and the budget
Paddings == {Repeat("sql", 5), Repeat("sql", 21), Repeat("long", 2), Repeat("long", 5)}

Stderr == <<"stderr">>
Stdout == <<"stdout">>

FreeDocs ==
    {<<[file_name |-> Stderr, lines |-> b]>> : b \in SeqsUpTo(ErrorKinds, MaxBody) \ {<<>>}}

PaddedWith(kinds) ==
    {<<[file_name |-> Stderr, lines |-> p \o b]>> :
        p \in Paddings, b \in {<<>>} \cup {<<k>> : k \in kinds}}

PaddedDocs == PaddedWith(BodyKinds)

TwoFileDocs ==
    {<<[file_name |-> Stdout, lines |-> <<a>>], [file_name |-> Stderr, lines |-> <<b, "ws">>]>> :
        a \in {"oom", "net"}, b \in {"gc", "sql", "net"}}

\* documents that end in blank lines
BlankTailDocs ==
    {<<[file_name |-> Stderr, lines |-> <<k, "blank", "ws">>]>> : k \in {"oom", "info"}}

LogContents == FreeDocs \cup PaddedDocs \cup TwoFileDocs \cup BlankTailDocs

\* analyzer configurations: <<MAX_TOKEN_LIMIT, LOG_SEARCH_CHUNK_SIZE>>
DefaultTokenLimit == 100000
Configs == {<<DefaultTokenLimit, 100>>, <<DefaultTokenLimit, 200>>, <<2000, 100>>, <<50, 100>>}

(***************************************************************************)
(* The log fetcher, src/src/utils/s3_client.py, class S3LogClient.          *)
(* A log file's content is content.split('\n') over a vocabulary of lines:  *)
(*   info     2024-01-01 10:00:00 INFO Starting job                        *)
(*   oom      2024-01-01 10:01:00 ERROR java.lang.OutOfMemoryError: Java   *)
(*            heap space                                                   *)
(*   jobfail  2024-01-01 10:02:00 ERROR Job 123 failed due to stage failure *)
(*   dump     Segmentation violation (core dumped)                         *)
(* A pattern is named by its text without the (?i) prefix, the \b anchors   *)
(* and with \s+ written as one blank and \d+ as N.  A dict is the sequence  *)
(* of its items in insertion order.                                        *)
(***************************************************************************)
S3LineKinds == {"info", "oom", "jobfail", "dump"}

default_patterns ==
    << [category |-> "critical_errors",
        patterns |-> <<"fatal error", "critical error", "outofmemoryerror",
                       "segmentation fault", "core dumped", "panic.*error",
                       "crash.*error">>],
       [category |-> "spark_errors",
        patterns |-> <<"analysisexception", "sparkexception",
                       "org.apache.spark..*exception", "job N failed",
                       "stage N failed", "task failed", "executor lost",
                       "driver stacktrace", "shuffle fetch failed">>],
       [category |-> "memory_issues",
        patterns |-> <<"outofmemoryerror", "java.lang.outofmemoryerror",
                       "container killed.*memory", "gc overhead limit",
                       "heap space exhausted", "metaspace out of memory",
                       "direct buffer memory">>],
       [category |-> "io_errors",
        patterns |-> <<"filenotfoundexception", "ioexception",
                       "no such file or directory", "permission denied",
                       "access denied", "disk space exhausted",
                       "no space left on device", "read timed out">>],
       [category |-> "network_errors",
        patterns |-> <<"connection refused", "connection timeout",
                       "connection reset", "unknownhostexception",
                       "sockettimeoutexception", "network is unreachable",
                       "host is unreachable", "broken pipe">>],
       [category |-> "application_errors",
        patterns |-> <<"nullpointerexception", "classnotfoundexception",
                       "classcastexception", "numberformatexception",
                       "illegalargumentexception", "illegalstateexception",
                       "unsupportedoperationexception", "runtimeexception">>],
       [category |-> "authentication_errors",
        patterns |-> <<"authentication failed", "authorization failed",
                       "access token expired", "invalid credentials",
                       "unauthorized access", "forbidden access",
                       "ssl certificate error">>],
       [category |-> "configuration_errors",
        patterns |-> <<"configuration error", "invalid configuration",
                       "missing configuration", "property not found",
                       "environment variable not set", "classpath error",
                       "library not found">>] >>

\* pattern_levels of search_iterative_patterns; None and {} are both <<>>
pattern_levels ==
    << << [category |-> "critical_errors",
           patterns |-> <<"fatal error", "outofmemoryerror", "segmentation fault">>] >>,
       << [category |-> "spark_errors",
           patterns |-> <<"analysisexception", "job N failed", "task failed">>],
          [category |-> "memory_issues",
           patterns |-> <<"outofmemoryerror", "container killed.*memory">>] >>,
       << >> >>

\* what re.finditer(pattern, content, re.IGNORECASE | re.MULTILINE) does at a
\* pattern: "[invalid regex" and "(" do not parse (re.error); the repetition
\* count of "a{99999999999999999999}" is too large (OverflowError)
PatternOutcome(pattern) ==
    CASE pattern \in {"[invalid regex", "("} -> "re.error"
      [] pattern = "a{99999999999999999999}" -> "OverflowError"
      [] OTHER -> "match"

\* the number of matches of a pattern in a line
PatternHits(pattern, k) ==
    CASE pattern = "outofmemoryerror" /\ k = "oom" -> 1
      [] pattern = "java.lang.outofmemoryerror" /\ k = "oom" -> 1
      [] pattern = "core dumped" /\ k = "dump" -> 1
      [] pattern = "job N failed" /\ k = "jobfail" -> 1
      [] OTHER -> 0

\* file_name.endswith('.gz') on the lower-cased name: the last part is gz
EndsWithGz(file_name) == file_name # <<>> /\ Lower(file_name[Len(file_name)]) = "gz"

\* faulty variant: the .gz suffix is tested before the role substrings
ClassifyLogTypeSuffixFirst(file_name) ==
    IF EndsWithGz(file_name) THEN "compressed"
    ELSE IF Contains(file_name, "stderr") THEN "stderr"
    ELSE IF Contains(file_name, "stdout") THEN "stdout"
    ELSE IF Contains(file_name, "log4j") THEN "log4j"
    ELSE IF Contains(file_name, "driver") THEN "driver"
    ELSE IF Contains(file_name, "executor") THEN "executor"
    ELSE "unknown"

\* S3LogClient._classify_log_type
ClassifyLogType(file_name) ==
    IF Contains(file_name, "stderr") THEN "stderr"
    ELSE IF Contains(file_name, "stdout") THEN "stdout"
    ELSE IF Contains(file_name, "log4j") THEN "log4j"
    ELSE IF Contains(file_name, "driver") THEN "driver"
    ELSE IF Contains(file_name, "executor") THEN "executor"
    ELSE IF EndsWithGz(file_name) THEN "compressed"
    ELSE "unknown"

\* S3LogClient._classify_error_severity
ClassifyErrorSeverity(k, category) ==
    IF k = "dump" THEN "critical"
    ELSE IF k \in {"oom", "jobfail"} THEN "high"
    ELSE IF category \in {"memory_issues", "critical_errors", "spark_errors"} THEN "high"
    ELSE IF category \in {"application_errors", "io_errors", "authentication_errors"}
         THEN "medium"
    ELSE "low"

\* the records that the matches of one pattern append, in match order
PatternMatchRecords(pattern, content, log_file, category) ==
    LET hit == SelectSeq([i \in 1..Len(content) |-> i],
                         LAMBDA i : PatternHits(pattern, content[i]) > 0)
    IN  [j \in 1..Len(hit) |->
            [file |-> log_file.file_name, file_type |-> log_file.log_type,
             pattern |-> pattern, line_number |-> hit[j],
             severity |-> ClassifyErrorSeverity(content[hit[j]], category)]]

\* the outcome of a call: the value it returns, or an exception
Returns(value) == [raised |-> FALSE, value |-> value]
Raises == [raised |-> TRUE, value |-> <<>>]

RECURSIVE SearchCategory(_, _, _, _, _, _)
\* the loop "for pattern in patterns" of _search_patterns_in_content, from
\* file_errors[category] = errors on: re.error skips the pattern, any other
\* exception leaves the method
SearchCategory(patterns, content, log_file, category, max_per_category, errors) ==
    IF patterns = <<>> THEN Returns(errors)
    ELSE IF PatternOutcome(Head(patterns)) = "re.error"
         THEN SearchCategory(Tail(patterns), content, log_file, category,
                             max_per_category, errors)
    ELSE IF PatternOutcome(Head(patterns)) = "OverflowError" THEN Raises
    ELSE LET matches == PatternMatchRecords(Head(patterns), content, log_file, category)
             room == IF max_per_category > Len(errors)
                     THEN max_per_category - Len(errors) ELSE 0
             appended == errors \o Prefix(matches, room)
         IN  IF Len(appended) >= max_per_category THEN Returns(appended)
             ELSE SearchCategory(Tail(patterns), content, log_file, category,
                                 max_per_category, appended)

\* S3LogClient._search_patterns_in_content: the dict file_errors, or an exception
SearchPatternsInContent(content, patterns_map, log_file, max_per_category) ==
    LET per == [i \in 1..Len(patterns_map) |->
                   SearchCategory(patterns_map[i].patterns, content, log_file,
                                  patterns_map[i].category, max_per_category, <<>>)]
    IN  IF \E i \in 1..Len(per) : per[i].raised THEN Raises
        ELSE Returns([i \in 1..Len(per) |->
                        [category |-> patterns_map[i].category, errors |-> per[i].value]])

\* priority_order of search_error_patterns; a type outside it sorts as 99
priority_order == <<"stderr", "log4j", "driver", "executor", "stdout", "unknown">>

PriorityIndex(log_type) ==
    IF log_type \in Range(priority_order)
    THEN (CHOOSE i \in 1..Len(priority_order) : priority_order[i] = log_type) - 1
    ELSE 99

\* sorted(log_files, key=lambda x: priority_order.index(x['log_type']) ...)
SortLogFiles(log_files) ==
    SortedDesc(log_files,
               [i \in 1..Len(log_files) |-> <<0 - PriorityIndex(log_files[i].log_type), 0>>])

\* found_errors = {category: [] for category in error_patterns}
EmptyErrors(patterns_map) ==
    [i \in 1..Len(patterns_map) |-> [category |-> patterns_map[i].category, errors |-> <<>>]]

\* faulty variant: the merged list is not trimmed
MergeFileErrorsUntrimmed(found_errors, file_errors, max_errors_per_category) ==
    [i \in 1..Len(found_errors) |->
        [found_errors[i] EXCEPT !.errors = @ \o file_errors[i].errors]]

\* the "Merge results" loop of search_error_patterns: extend, then trim
MergeFileErrors(found_errors, file_errors, max_errors_per_category) ==
    [i \in 1..Len(found_errors) |->
        [found_errors[i] EXCEPT
            !.errors = Prefix(found_errors[i].errors \o file_errors[i].errors,
                              max_errors_per_category)]]

DictKeys(d) == [i \in 1..Len(d) |-> d[i].category]

\* d.get(category, [])
DictGet(d, category) ==
    IF \E i \in 1..Len(d) : d[i].category = category
    THEN d[CHOOSE i \in 1..Len(d) : d[i].category = category].errors
    ELSE <<>>

RECURSIVE MergeAllErrors(_, _)
\* the "Merge results" loop of search_iterative_patterns
MergeAllErrors(all_errors, results) ==
    IF results = <<>> THEN all_errors
    ELSE MergeAllErrors(
            IF \E i \in 1..Len(all_errors) : all_errors[i].category = Head(results).category
            THEN [i \in 1..Len(all_errors) |->
                    IF all_errors[i].category = Head(results).category
                    THEN [all_errors[i] EXCEPT !.errors = @ \o Head(results).errors]
                    ELSE all_errors[i]]
            ELSE Append(all_errors, Head(results)),
            Tail(results))

RECURSIVE TotalErrors(_)
\* sum(len(errors) for errors in d.values())
TotalErrors(d) == IF d = <<>> THEN 0 ELSE Len(Head(d).errors) + TotalErrors(Tail(d))

\* pattern_levels[iteration] if iteration < len(pattern_levels) else None
LevelPatterns(iteration) ==
    IF iteration < Len(pattern_levels) THEN pattern_levels[iteration + 1] ELSE <<>>

\* range(min(max_iterations, len(pattern_levels))) holds iteration
IterationBound(max_iterations) == Min(max_iterations, Len(pattern_levels))

\* max_errors_per_category=20 if iteration == 0 else 50
FirstIterationCap == 20
LaterIterationCap == 50
DefaultCap == 50

\* faulty variant: the test reads iteration == 1
EarlyTerminationSecondRound(iteration, results) ==
    iteration = 1 /\ DictGet(results, "critical_errors") # <<>>

\* "Early termination if critical errors found"
EarlyTermination(iteration, results) ==
    iteration = 0 /\ DictGet(results, "critical_errors") # <<>>

NoSearch ==
    [pc |-> "idle", op |-> "none", bucket |-> <<>>, custom_patterns |-> <<>>,
     max_errors_per_category |-> 0, error_patterns |-> <<>>, found_errors |-> <<>>,
     sorted_log_files |-> <<>>, file |-> 0, content |-> <<>>, unreadable |-> {},
     max_iterations |-> 0, iteration |-> 0, iteration_results |-> <<>>,
     all_errors |-> <<>>, result |-> <<>>]

\* the result dict of an analysis call before it is built
NoResult ==
    [error_summary |-> <<>>, prioritized_chunks |-> <<>>, optimized_content |-> 0,
     token_estimate |-> 0, iteration_breakdown |-> <<>>, total_iterations |-> 0]

\* S3LogClient.download_and_read_log with no call in progress
NoDownload ==
    [pc |-> "idle", s3_key |-> <<>>, object |-> [size |-> 0, data |-> "text"],
     max_size_mb |-> 0, file_size |-> 0, temp_file_path |-> 0,
     error |-> "none", content |-> <<>>]

\* analyze_cluster_logs with no call in progress
NoTool ==
    [pc |-> "idle", log_files |-> <<>>, search_pattern |-> NoQuery, max_files |-> 0,
     sorted_files |-> <<>>, file |-> 0, log_content |-> <<>>, files_processed |-> 0,
     failed |-> "none",
     result |-> [kind |-> "none", files_analyzed |-> 0, analysis |-> NoResult]]

(***************************************************************************)
(* State.                                                                  *)
(*   error_patterns   self.error_patterns of the one LogAnalyzer           *)
(*   max_token_limit  self.max_token_limit                                 *)
(*   chunk_size       self.chunk_size                                      *)
(*   calls            the analysis calls on that analyzer: for each call   *)
(*                    its position pc, its arguments and its locals, named  *)
(*                    as in the source.  scored_patterns is the catalog    *)
(*                    that self.error_patterns held when the call's        *)
(*                    chunks were scored.  Token counts are in tenths.     *)
(*   dedup            one call of _deduplicate_errors on a list of its     *)
(*                    own: its position, its argument and its result       *)
(*   search           one operation of the S3LogClient: its position, its   *)
(*                    arguments and locals, the bucket's listing, and the  *)
(*                    files whose download raised (what print() reported)  *)
(*   download         one call of S3LogClient.download_and_read_log: its    *)
(*                    position, its arguments and locals, the S3 object,   *)
(*                    and how it ended                                     *)
(*   temp_dir         the files in the temporary directory                 *)
(*   tool             one call of the tool analyze_cluster_logs            *)
(***************************************************************************)
VARIABLES error_patterns, max_token_limit, chunk_size, calls, dedup, search,
          download, temp_dir, tool

vars == <<error_patterns, max_token_limit, chunk_size, calls, dedup, search,
          download, temp_dir, tool>>

Calls == {1, 2}

IdleCall ==
    [pc |-> "idle", kind |-> "none",
     log_content |-> <<>>, search_query |-> NoQuery, max_iterations |-> 0,
     all_errors |-> <<>>, analyzed_chunks |-> <<>>, iteration_results |-> <<>>,
     token_budget |-> 0, sorted_patterns |-> <<>>, iteration |-> 0,
     target_patterns |-> <<>>, chunk_limit |-> 0, original_patterns |-> <<>>,
     scored_patterns |-> <<>>, limited_chunks |-> <<>>, error_summary |-> <<>>,
     token_usage |-> 0, result |-> NoResult]

NoDedup == [pc |-> "idle", errors |-> <<>>, unique_errors |-> <<>>]

Init ==
    /\ error_patterns = FullCatalog
    /\ \E cfg \in Configs : max_token_limit = cfg[1] /\ chunk_size = cfg[2]
    /\ calls = [c \in Calls |-> IdleCall]
    /\ dedup = NoDedup
    /\ search = NoSearch
    /\ download = NoDownload
    /\ temp_dir = {}
    /\ tool = NoTool

\* the head of the for loop: enter round `iteration` or leave the loop
LoopHead(call, iteration) ==
    IF HasRound(iteration, call.max_iterations)
    THEN [call EXCEPT !.pc = "save",
                      !.iteration = iteration,
                      !.target_patterns = TargetPatterns(call.sorted_patterns, iteration),
                      !.chunk_limit = ChunkLimit(iteration)]
    ELSE [call EXCEPT !.pc = "finish"]

\* analyze_logs_iteratively, up to the first call of _analyze_iteration
AnalyzeLogsIteratively(c, log_content, search_query, max_iterations) ==
    /\ calls[c].pc = "idle"
    /\ calls' = [calls EXCEPT ![c] =
          LoopHead([IdleCall EXCEPT !.kind = "iterative",
                                    !.log_content = log_content,
                                    !.search_query = search_query,
                                    !.max_iterations = max_iterations,
                                    !.token_budget = Tokens(max_token_limit),
                                    !.sorted_patterns = SortedPatterns(error_patterns)],
                   0)]
    /\ UNCHANGED <<error_patterns, max_token_limit, chunk_size, dedup, search, download, temp_dir, tool>>

\* _analyze_iteration: original_patterns = self.error_patterns
SavePatterns(c) ==
    /\ calls[c].pc = "save"
    /\ calls' = [calls EXCEPT ![c].pc = "narrow",
                              ![c].original_patterns = error_patterns]
    /\ UNCHANGED <<error_patterns, max_token_limit, chunk_size, dedup, search, download, temp_dir, tool>>

\* _analyze_iteration: self.error_patterns = target_patterns
NarrowPatterns(c) ==
    /\ calls[c].pc = "narrow"
    /\ error_patterns' = calls[c].target_patterns
    /\ calls' = [calls EXCEPT ![c].pc = "chunk"]
    /\ UNCHANGED <<max_token_limit, chunk_size, dedup, search, download, temp_dir, tool>>

\* _analyze_iteration: chunked_logs, limited_chunks
ChunkIteration(c) ==
    /\ calls[c].pc = "chunk"
    /\ calls' =
          IF \/ ChunkerRaises(calls[c].log_content, chunk_size)
             \/ ScorerRaises(calls[c].log_content, error_patterns)
          THEN [calls EXCEPT ![c].pc = "unwind"]
          ELSE [calls EXCEPT
                  ![c].pc = "analyze",
                  ![c].scored_patterns = error_patterns,
                  ![c].limited_chunks =
                      Prefix(ChunkAndPrioritizeLogs(calls[c].log_content,
                                                    calls[c].search_query,
                                                    error_patterns, chunk_size),
                             calls[c].chunk_limit)]
    /\ UNCHANGED <<error_patterns, max_token_limit, chunk_size, dedup, search, download, temp_dir, tool>>

\* faulty variant: an exception leaves _analyze_iteration without the restore
UnwindWithoutRestore(c) ==
    /\ calls[c].pc = "unwind"
    /\ calls' = [calls EXCEPT ![c].pc = "raised"]
    /\ UNCHANGED <<error_patterns, max_token_limit, chunk_size, dedup, search, download, temp_dir, tool>>

\* _analyze_iteration: the finally clause on the way out of an exception, which
\* then leaves analyze_logs_iteratively
UnwindPatterns(c) ==
    /\ calls[c].pc = "unwind"
    /\ error_patterns' = calls[c].original_patterns
    /\ calls' = [calls EXCEPT ![c].pc = "raised"]
    /\ UNCHANGED <<max_token_limit, chunk_size, dedup, search, download, temp_dir, tool>>

\* _analyze_iteration: error_summary and token_usage
AnalyzeIteration(c) ==
    /\ calls[c].pc = "analyze"
    /\ calls' = [calls EXCEPT
          ![c].pc = "restore",
          ![c].error_summary = AnalyzeErrors(calls[c].limited_chunks, error_patterns),
          ![c].token_usage = TokenUsage(calls[c].limited_chunks, calls[c].token_budget)]
    /\ UNCHANGED <<error_patterns, max_token_limit, chunk_size, dedup, search, download, temp_dir, tool>>

\* the rest of the loop body once _analyze_iteration has returned
AfterIteration(call) ==
    LET record == [iteration |-> call.iteration + 1,
                   patterns_searched |-> call.target_patterns,
                   errors_found |-> Len(call.error_summary),
                   chunks_analyzed |-> Len(call.limited_chunks),
                   token_usage |-> call.token_usage]
        budget == call.token_budget - call.token_usage
        next == [call EXCEPT !.iteration_results = Append(@, record),
                             !.all_errors = @ \o call.error_summary,
                             !.analyzed_chunks = @ \o call.limited_chunks,
                             !.token_budget = budget]
    IN  IF CriticalBreak(call.error_summary, call.iteration) \/ BudgetBreak(budget)
        THEN [next EXCEPT !.pc = "finish"]
        ELSE LoopHead(next, call.iteration + 1)

\* _analyze_iteration: the finally clause restores self.error_patterns; the
\* call returns and the loop body records the round and decides to go on
RestorePatterns(c) ==
    /\ calls[c].pc = "restore"
    /\ error_patterns' = calls[c].original_patterns
    /\ calls' = [calls EXCEPT ![c] = AfterIteration(calls[c])]
    /\ UNCHANGED <<max_token_limit, chunk_size, dedup, search, download, temp_dir, tool>>

\* analyze_logs_iteratively after the loop: deduplicate, sort, summarize, return
ReturnIterative(call, sorted_errors, limit) ==
    Only({[error_summary |-> sorted_errors,
           prioritized_chunks |-> Prefix(call.analyzed_chunks, 15),
           optimized_content |-> final_summary,
           token_estimate |-> EstimateTokens(final_summary),
           iteration_breakdown |-> call.iteration_results,
           total_iterations |-> Len(call.iteration_results)] :
             final_summary \in {CreateIterativeSummary(call.analyzed_chunks, sorted_errors,
                                                       call.iteration_results, limit)}})

IterativeResult(call, limit) ==
    Only({ReturnIterative(call, sorted_errors, limit) :
             sorted_errors \in {SortFinalErrors(DeduplicateErrors(call.all_errors))}})

FinishIterative(c) ==
    /\ calls[c].pc = "finish"
    /\ calls' = [calls EXCEPT ![c].pc = "done",
                              ![c].result = IterativeResult(calls[c], max_token_limit)]
    /\ UNCHANGED <<error_patterns, max_token_limit, chunk_size, dedup, search, download, temp_dir, tool>>

\* analyze_logs: _chunk_and_prioritize_logs
AnalyzeLogs(c, log_content, search_query) ==
    /\ calls[c].pc = "idle"
    /\ calls' = [calls EXCEPT ![c] =
          IF \/ ChunkerRaises(log_content, chunk_size)
             \/ ScorerRaises(log_content, error_patterns)
          THEN [IdleCall EXCEPT
                  !.pc = "raised", !.kind = "single",
                  !.log_content = log_content, !.search_query = search_query]
          ELSE [IdleCall EXCEPT
                  !.pc = "summarize", !.kind = "single",
                  !.log_content = log_content, !.search_query = search_query,
                  !.scored_patterns = error_patterns,
                  !.limited_chunks = ChunkAndPrioritizeLogs(log_content, search_query,
                                                            error_patterns, chunk_size)]]
    /\ UNCHANGED <<error_patterns, max_token_limit, chunk_size, dedup, search, download, temp_dir, tool>>

SingleResult(chunked_logs, error_summary, limit) ==
    Only({[error_summary |-> error_summary,
           prioritized_chunks |-> Prefix(chunked_logs, 10),
           optimized_content |-> optimized_content,
           token_estimate |-> EstimateTokens(optimized_content),
           iteration_breakdown |-> <<>>,
           total_iterations |-> 0] :
             optimized_content \in {CreateOptimizedSummary(chunked_logs, error_summary,
                                                           limit)}})

\* analyze_logs: _analyze_errors, _create_optimized_summary, return
SummarizeLogs(c) ==
    /\ calls[c].pc = "summarize"
    /\ \E error_summary \in {AnalyzeErrors(calls[c].limited_chunks, error_patterns)} :
          calls' = [calls EXCEPT
             ![c].pc = "done",
             ![c].error_summary = error_summary,
             ![c].result = SingleResult(calls[c].limited_chunks, error_summary,
                                        max_token_limit)]
    /\ UNCHANGED <<error_patterns, max_token_limit, chunk_size, dedup, search, download, temp_dir, tool>>

\* the caller drops the result; the analyzer is free for the next call
Return(c) ==
    /\ calls[c].pc = "done"
    /\ calls' = [calls EXCEPT ![c] = IdleCall]
    /\ UNCHANGED <<error_patterns, max_token_limit, chunk_size, dedup, search, download, temp_dir, tool>>

\* the caller gets the exception; the analyzer is free for the next call
Propagate(c) ==
    /\ calls[c].pc = "raised"
    /\ calls' = [calls EXCEPT ![c] = IdleCall]
    /\ UNCHANGED <<error_patterns, max_token_limit, chunk_size, dedup, search, download, temp_dir, tool>>

MaxIterations == 0..MaxIterArg

StartIterative(c) ==
    \E log_content \in LogContents, q \in Queries, m \in MaxIterations :
        AnalyzeLogsIteratively(c, log_content, q, m)

StartSingle(c) ==
    \E log_content \in LogContents, q \in Queries : AnalyzeLogs(c, log_content, q)

Step(c) ==
    \/ StartIterative(c)
    \/ SavePatterns(c)
    \/ NarrowPatterns(c)
    \/ ChunkIteration(c)
    \/ AnalyzeIteration(c)
    \/ RestorePatterns(c)
    \/ FinishIterative(c)
    \/ StartSingle(c)
    \/ SummarizeLogs(c)
    \/ Return(c)

(***************************************************************************)
(* Spec: the analyzer serves one call after the other (call 1).            *)
(***************************************************************************)
Next == Step(1)

Spec == Init /\ [][Next]_vars

\* the steps of an iterative call that is under way
Iterate(c) ==
    \/ SavePatterns(c)
    \/ NarrowPatterns(c)
    \/ ChunkIteration(c)
    \/ AnalyzeIteration(c)
    \/ RestorePatterns(c)
    \/ FinishIterative(c)

\* the steps of a call that is under way (all but the start of a call)
Progress(c) == Iterate(c) \/ SummarizeLogs(c)

(***************************************************************************)
(* FairSpec: iterative calls, one after the other, on the long and the      *)
(* two-file documents; a call that has started keeps running, as a Python   *)
(* call runs on until it returns or raises.                                *)
(***************************************************************************)
FairLogContents == PaddedWith({"gc", "net"}) \cup TwoFileDocs

StartIterativeFair(c) ==
    \E log_content \in FairLogContents, m \in MaxIterations :
        AnalyzeLogsIteratively(c, log_content, NoQuery, m)

NextFair == StartIterativeFair(1) \/ Iterate(1) \/ Return(1)

FairSpec == Init /\ [][NextFair]_vars /\ WF_vars(Iterate(1))

(***************************************************************************)
(* SpecConc: two calls run at once on the same analyzer (two threads that   *)
(* share the LogAnalyzer), each call made once; their steps interleave at  *)
(* every access to self.error_patterns.                                    *)
(***************************************************************************)
ConcLogContents ==
    {<<[file_name |-> Stderr, lines |-> b]>> : b \in {<<"oom">>, <<"fatal", "net">>}}

ConcIterations == {2}

StartIterativeConc(c) ==
    \E log_content \in ConcLogContents, m \in ConcIterations :
        AnalyzeLogsIteratively(c, log_content, NoQuery, m)

StartSingleConc(c) ==
    \E log_content \in ConcLogContents : AnalyzeLogs(c, log_content, NoQuery)

NextConc ==
    \E c \in Calls :
        \/ StartIterativeConc(c)
        \/ StartSingleConc(c)
        \/ Progress(c)

SpecConc == Init /\ [][NextConc]_vars

(***************************************************************************)
(* SpecChunk: calls, one after the other, on analyzers of any configured    *)
(* chunk size from 1 up, LOG_SEARCH_CHUNK_SIZE being read from the          *)
(* environment without a check.                                            *)
(***************************************************************************)
ChunkSizes == {1, 50, 99, 100, 199, 200, 300}

ChunkLogContents == TwoFileDocs \cup BlankTailDocs

InitChunk ==
    /\ error_patterns = FullCatalog
    /\ max_token_limit = DefaultTokenLimit
    /\ chunk_size \in ChunkSizes
    /\ calls = [c \in Calls |-> IdleCall]
    /\ dedup = NoDedup
    /\ search = NoSearch
    /\ download = NoDownload
    /\ temp_dir = {}
    /\ tool = NoTool

StartIterativeChunk(c) ==
    \E log_content \in ChunkLogContents, m \in MaxIterations :
        AnalyzeLogsIteratively(c, log_content, NoQuery, m)

StartSingleChunk(c) ==
    \E log_content \in ChunkLogContents : AnalyzeLogs(c, log_content, NoQuery)

NextChunk ==
    \/ StartIterativeChunk(1)
    \/ StartSingleChunk(1)
    \/ Progress(1)
    \/ UnwindPatterns(1)
    \/ Return(1)
    \/ Propagate(1)

SpecChunk == InitChunk /\ [][NextChunk]_vars

(***************************************************************************)
(* SpecRegex: calls, one after the other, on an analyzer whose catalog      *)
(* holds the host's category with a malformed pattern.                     *)
(***************************************************************************)
BlankDocs == {<<[file_name |-> Stderr, lines |-> <<"blank", "ws">>]>>}

RegexLogContents == TwoFileDocs \cup BlankTailDocs \cup BlankDocs

InitRegex ==
    /\ error_patterns = Append(FullCatalog, CustomCategory)
    /\ max_token_limit = DefaultTokenLimit
    /\ chunk_size \in {100, 200}
    /\ calls = [c \in Calls |-> IdleCall]
    /\ dedup = NoDedup
    /\ search = NoSearch
    /\ download = NoDownload
    /\ temp_dir = {}
    /\ tool = NoTool

StartIterativeRegex(c) ==
    \E log_content \in RegexLogContents, m \in MaxIterations :
        AnalyzeLogsIteratively(c, log_content, NoQuery, m)

StartSingleRegex(c) ==
    \E log_content \in RegexLogContents : AnalyzeLogs(c, log_content, NoQuery)

NextRegex ==
    \/ StartIterativeRegex(1)
    \/ StartSingleRegex(1)
    \/ Progress(1)
    \/ UnwindPatterns(1)
    \/ Return(1)
    \/ Propagate(1)

SpecRegex == InitRegex /\ [][NextRegex]_vars

(***************************************************************************)
(* SpecDedup: _deduplicate_errors applied to any list of ErrorSummary.      *)
(***************************************************************************)
DedupTypes == {"memory_errors", "network_errors"}
DedupLabels == {"Memory Management", "Network"}

DedupSummaries ==
    {[error_type |-> t, description |-> d, frequency |-> f, severity |-> Severity(t),
      suggested_solution |-> d, relevant_logs |-> <<Stderr>>] :
        t \in DedupTypes, d \in DedupLabels, f \in 1..MaxFreq}

InitDedup ==
    /\ error_patterns = FullCatalog
    /\ max_token_limit = DefaultTokenLimit
    /\ chunk_size = 100
    /\ calls = [c \in Calls |-> IdleCall]
    /\ \E errors \in SeqsUpTo(DedupSummaries, MaxErrList) :
          dedup = [pc |-> "call", errors |-> errors, unique_errors |-> <<>>]
    /\ search = NoSearch
    /\ download = NoDownload
    /\ temp_dir = {}
    /\ tool = NoTool

Deduplicate ==
    /\ dedup.pc = "call"
    /\ dedup' = [dedup EXCEPT !.pc = "return",
                              !.unique_errors = DeduplicateErrors(dedup.errors)]
    /\ UNCHANGED <<error_patterns, max_token_limit, chunk_size, calls, search, download, temp_dir, tool>>

NextDedup == Deduplicate

SpecDedup == InitDedup /\ [][NextDedup]_vars

(***************************************************************************)
(* SpecS3: operations of one S3LogClient, one after the other, on any      *)
(* bucket listing, with any outcome of each listing and each download.     *)
(***************************************************************************)
S3Contents ==
    {<<"info">>, <<"info", "oom", "jobfail">>, <<"jobfail", "info">>,
     <<"dump", "jobfail">>, <<"oom", "oom">>}

\* file names of up to MaxNameParts parts
NameParts == {"stderr", "stdout", "log4j", "driver", "executor", "STDERR", "Driver",
              "app", "gz", "GZ"}

FileNames == SeqsUpTo(NameParts, MaxNameParts) \ {<<>>}

\* an entry of list_cluster_logs, with the object's content
LogFile(file_name, content) ==
    [key |-> file_name, file_name |-> file_name,
     log_type |-> ClassifyLogType(file_name), content |-> content]

\* listings as list_cluster_logs returns them (last_modified descending)
Buckets ==
    {<<>>}
    \cup {<<LogFile(Stderr, c)>> : c \in S3Contents}
    \cup {<<LogFile(Stdout, c1), LogFile(Stderr, c2)>> : c1, c2 \in S3Contents}
    \cup {<<LogFile(<<"app", "gz">>, c), LogFile(Stdout, <<"oom">>), LogFile(Stderr, <<"info">>)>> :
             c \in {<<"jobfail", "info">>, <<"dump", "jobfail">>}}

\* custom_patterns arguments; <<>> is None
CustomPatterns ==
    {<<>>,
     <<[category |-> "test_category", patterns |-> <<"[invalid regex", "job N failed">>]>>,
     <<[category |-> "test_category",
        patterns |-> <<"outofmemoryerror", "(", "job N failed">>]>>,
     <<[category |-> "test_category",
        patterns |-> <<"a{99999999999999999999}", "job N failed">>],
       [category |-> "memory_issues", patterns |-> <<"outofmemoryerror">>]>>}

Caps == {1, DefaultCap}

S3Unchanged ==
    UNCHANGED <<error_patterns, max_token_limit, chunk_size, calls, dedup,
                download, temp_dir, tool>>

\* search_error_patterns(cluster_id, custom_patterns, max_errors_per_category)
SearchErrorPatterns ==
    /\ search.pc = "idle"
    /\ \E bucket \in Buckets, custom_patterns \in CustomPatterns, cap \in Caps :
          search' = [NoSearch EXCEPT !.op = "search", !.pc = "list",
                                     !.bucket = bucket,
                                     !.custom_patterns = custom_patterns,
                                     !.max_errors_per_category = cap]
    /\ S3Unchanged

\* log_files = await self.list_cluster_logs(cluster_id) returns; the pattern
\* map is chosen, found_errors initialised and the files sorted
ListClusterLogs ==
    /\ search.pc = "list"
    /\ search' = [search EXCEPT
                    !.pc = "file",
                    !.error_patterns = IF search.custom_patterns # <<>>
                                       THEN search.custom_patterns ELSE default_patterns,
                    !.found_errors = EmptyErrors(IF search.custom_patterns # <<>>
                                                 THEN search.custom_patterns
                                                 ELSE default_patterns),
                    !.sorted_log_files = SortLogFiles(search.bucket),
                    !.file = 1]
    /\ S3Unchanged

\* list_cluster_logs raises Exception("Failed to list logs ..."); neither
\* search_error_patterns nor search_iterative_patterns catches it
ListClusterLogsFails ==
    /\ search.pc = "list"
    /\ search' = [search EXCEPT !.pc = "raised"]
    /\ S3Unchanged

\* content = await self.download_and_read_log(log_file['key'], max_size_mb=25)
DownloadAndReadLog ==
    /\ search.pc = "file"
    /\ search.file <= Len(search.sorted_log_files)
    /\ search' = [search EXCEPT !.pc = "search",
                                !.content = search.sorted_log_files[search.file].content]
    /\ S3Unchanged

\* the download raises (too large, transport, decoding): except Exception
\* prints the key and continues with the next file
DownloadFails ==
    /\ search.pc = "file"
    /\ search.file <= Len(search.sorted_log_files)
    /\ search' = [search EXCEPT
                    !.unreadable = @ \cup {search.sorted_log_files[search.file].file_name},
                    !.file = @ + 1]
    /\ S3Unchanged

\* _search_patterns_in_content on the file and the merge of its result; an
\* exception of the search is caught by the same except Exception
SearchFile ==
    /\ search.pc = "search"
    /\ \E file_errors \in {SearchPatternsInContent(search.content, search.error_patterns,
                                                   search.sorted_log_files[search.file],
                                                   search.max_errors_per_category)} :
          search' = [search EXCEPT
                        !.pc = "file",
                        !.file = @ + 1,
                        !.content = <<>>,
                        !.found_errors =
                            IF file_errors.raised THEN @
                            ELSE MergeFileErrors(@, file_errors.value,
                                                 search.max_errors_per_category)]
    /\ S3Unchanged

\* return found_errors
ReturnFoundErrors ==
    /\ search.pc = "file"
    /\ search.op = "search"
    /\ search.file > Len(search.sorted_log_files)
    /\ search' = [search EXCEPT !.pc = "done", !.result = search.found_errors]
    /\ S3Unchanged

\* the dict that search_iterative_patterns returns
IterativeSearchResult(all_errors, iteration_results) ==
    [errors_by_category |-> all_errors,
     iteration_summary |-> iteration_results,
     total_errors |-> TotalErrors(all_errors),
     categories_found |-> DictKeys(all_errors)]

\* search_iterative_patterns(cluster_id, max_iterations): entry and the head
\* of the first iteration
SearchIterativePatterns ==
    /\ search.pc = "idle"
    /\ \E bucket \in Buckets, max_iterations \in MaxIterations :
          search' =
            IF IterationBound(max_iterations) <= 0
            THEN [NoSearch EXCEPT !.op = "iterative", !.pc = "done",
                                  !.bucket = bucket,
                                  !.max_iterations = max_iterations,
                                  !.result = IterativeSearchResult(<<>>, <<>>)]
            ELSE [NoSearch EXCEPT !.op = "iterative", !.pc = "list",
                                  !.bucket = bucket,
                                  !.max_iterations = max_iterations,
                                  !.iteration = 0,
                                  !.custom_patterns = LevelPatterns(0),
                                  !.max_errors_per_category = FirstIterationCap]
    /\ S3Unchanged

\* search_error_patterns returned into search_iterative_patterns: the record,
\* the merge, the early termination, and the head of the next iteration
EndIteration ==
    /\ search.pc = "file"
    /\ search.op = "iterative"
    /\ search.file > Len(search.sorted_log_files)
    /\ \E results \in {search.found_errors} :
       \E iteration_results \in
            {Append(search.iteration_results,
                    [iteration |-> search.iteration + 1,
                     patterns_used |-> IF search.custom_patterns # <<>>
                                       THEN DictKeys(search.custom_patterns)
                                       ELSE <<"comprehensive">>,
                     errors_found |-> TotalErrors(results),
                     categories |-> DictKeys(results)])},
          all_errors \in {MergeAllErrors(search.all_errors, results)} :
          search' =
            IF \/ EarlyTermination(search.iteration, results)
               \/ search.iteration + 1 >= IterationBound(search.max_iterations)
            THEN [search EXCEPT !.pc = "done",
                                !.iteration_results = iteration_results,
                                !.all_errors = all_errors,
                                !.result = IterativeSearchResult(all_errors,
                                                                 iteration_results)]
            ELSE [search EXCEPT !.pc = "list",
                                !.iteration_results = iteration_results,
                                !.all_errors = all_errors,
                                !.iteration = @ + 1,
                                !.custom_patterns = LevelPatterns(search.iteration + 1),
                                !.max_errors_per_category = LaterIterationCap]
    /\ S3Unchanged

\* a direct call of _search_patterns_in_content(content, error_patterns,
\* log_file, max_per_category)
SearchPatternsInContentCall ==
    /\ search.pc = "idle"
    /\ \E content \in S3Contents, patterns_map \in CustomPatterns \ {<<>>}, cap \in Caps :
       \E file_errors \in {SearchPatternsInContent(content, patterns_map,
                                                   LogFile(Stderr, content), cap)} :
          search' = [NoSearch EXCEPT
                        !.op = "content",
                        !.pc = IF file_errors.raised THEN "raised" ELSE "done",
                        !.content = content,
                        !.error_patterns = patterns_map,
                        !.max_errors_per_category = cap,
                        !.result = file_errors.value]
    /\ S3Unchanged

\* the caller takes the result
SearchReturns ==
    /\ search.pc = "done"
    /\ search' = NoSearch
    /\ S3Unchanged

\* the exception reaches the caller
SearchPropagates ==
    /\ search.pc = "raised"
    /\ search' = NoSearch
    /\ S3Unchanged

\* one file name given to _determine_log_type of the analyzer and to
\* _classify_log_type of the listing
ClassifyFileName ==
    /\ search.pc = "idle"
    /\ \E file_name \in FileNames :
          search' = [NoSearch EXCEPT !.op = "classify", !.pc = "done",
                                     !.bucket = <<LogFile(file_name, <<>>)>>,
                                     !.result = <<DetermineLogType(file_name)>>]
    /\ S3Unchanged

NextS3 ==
    \/ SearchErrorPatterns
    \/ SearchIterativePatterns
    \/ SearchPatternsInContentCall
    \/ ListClusterLogs
    \/ ListClusterLogsFails
    \/ DownloadAndReadLog
    \/ DownloadFails
    \/ SearchFile
    \/ ReturnFoundErrors
    \/ EndIteration
    \/ SearchReturns
    \/ SearchPropagates

InitS3 ==
    /\ error_patterns = FullCatalog
    /\ max_token_limit = DefaultTokenLimit
    /\ chunk_size = 100
    /\ calls = [c \in Calls |-> IdleCall]
    /\ dedup = NoDedup
    /\ search = NoSearch
    /\ download = NoDownload
    /\ temp_dir = {}
    /\ tool = NoTool

SpecS3 == InitS3 /\ [][NextS3]_vars

(***************************************************************************)
(* SpecNames: the two role classifiers on any file name.                   *)
(***************************************************************************)
NextNames == ClassifyFileName \/ SearchReturns

SpecNames == InitS3 /\ [][NextNames]_vars

(***************************************************************************)
(* SpecDownload: calls of download_and_read_log, one after the other.  An   *)
(* S3 object is its ContentLength and the kind of its bytes: text (UTF-8),  *)
(* binary (not UTF-8), gzip (gzip-compressed UTF-8 text).  head_object and  *)
(* download_fileobj can fail with ClientError on any call.                 *)
(***************************************************************************)
MaxTempFiles == 2     \* temporary files left behind before the calls stop

Megabyte == 1024 * 1024

S3Keys == {<<"stderr">>, <<"app", "gz">>}

ObjectSizes == {0, 10 * Megabyte, 10 * Megabyte + 1, 50 * Megabyte, 50 * Megabyte + 1}

S3Objects == [size : ObjectSizes, data : {"text", "binary", "gzip"}]

\* max_size_mb of the callers: get_log_snippet 10, the default 50
SizeLimits == {10, 50}

DownloadUnchanged ==
    UNCHANGED <<error_patterns, max_token_limit, chunk_size, calls, dedup, search, tool>>

\* what reading the temporary file does: gzip.open(..., 'rt') for a key in
\* .gz, aiofiles.open(..., 'r') otherwise, both decoding UTF-8
ReadOutcome(s3_key, data) ==
    IF s3_key[Len(s3_key)] = "gz"
    THEN CASE data = "gzip" -> "content"
           [] OTHER -> "BadGzipFile"
    ELSE CASE data = "text" -> "content"
           [] OTHER -> "UnicodeDecodeError"

\* tempfile.NamedTemporaryFile picks a name that is not in use
FreshName == CHOOSE n \in 1..(MaxTempFiles + 1) : n \notin temp_dir

\* download_and_read_log(s3_key, max_size_mb): head_object returned and the
\* size check
HeadObject ==
    /\ download.pc = "idle"
    /\ Cardinality(temp_dir) < MaxTempFiles
    /\ \E s3_key \in S3Keys, object \in S3Objects, max_size_mb \in SizeLimits :
          download' =
             [NoDownload EXCEPT
                !.s3_key = s3_key, !.object = object, !.max_size_mb = max_size_mb,
                !.file_size = object.size,
                !.pc = IF object.size > max_size_mb * Megabyte THEN "raised" ELSE "create",
                !.error = IF object.size > max_size_mb * Megabyte
                          THEN "too large" ELSE "none"]
    /\ UNCHANGED temp_dir
    /\ DownloadUnchanged

\* head_object raises ClientError: "Failed to download log"
HeadObjectFails ==
    /\ download.pc = "idle"
    /\ \E s3_key \in S3Keys, max_size_mb \in SizeLimits :
          download' = [NoDownload EXCEPT !.s3_key = s3_key, !.max_size_mb = max_size_mb,
                                         !.pc = "raised",
                                         !.error = "Failed to download"]
    /\ UNCHANGED temp_dir
    /\ DownloadUnchanged

\* with tempfile.NamedTemporaryFile(delete=False) as temp_file
CreateTempFile ==
    /\ download.pc = "create"
    /\ download' = [download EXCEPT !.pc = "download", !.temp_file_path = FreshName]
    /\ temp_dir' = temp_dir \cup {FreshName}
    /\ DownloadUnchanged

\* download_fileobj returned; the with block closes the file and keeps it
DownloadFileobj ==
    /\ download.pc = "download"
    /\ download' = [download EXCEPT !.pc = "read"]
    /\ UNCHANGED temp_dir
    /\ DownloadUnchanged

\* download_fileobj raises ClientError inside the with block, before the
\* try/finally that unlinks: "Failed to download log"
DownloadFileobjFails ==
    /\ download.pc = "download"
    /\ download' = [download EXCEPT !.pc = "raised", !.error = "Failed to download"]
    /\ UNCHANGED temp_dir
    /\ DownloadUnchanged

\* the inner try: read and decode, then finally os.unlink(temp_file_path);
\* UnicodeDecodeError becomes "Failed to decode", any other error propagates
ReadLogFile ==
    /\ download.pc = "read"
    /\ \E outcome \in {ReadOutcome(download.s3_key, download.object.data)} :
          download' =
             [download EXCEPT
                !.pc = IF outcome = "content" THEN "done" ELSE "raised",
                !.error = CASE outcome = "content" -> "none"
                            [] outcome = "UnicodeDecodeError" -> "Failed to decode"
                            [] OTHER -> outcome,
                !.content = IF outcome = "content" THEN <<"info">> ELSE <<>>]
    /\ temp_dir' = temp_dir \ {download.temp_file_path}
    /\ DownloadUnchanged

\* the caller has the content or the exception
DownloadReturns ==
    /\ download.pc \in {"done", "raised"}
    /\ download' = NoDownload
    /\ UNCHANGED temp_dir
    /\ DownloadUnchanged

NextDownload ==
    \/ HeadObject
    \/ HeadObjectFails
    \/ CreateTempFile
    \/ DownloadFileobj
    \/ DownloadFileobjFails
    \/ ReadLogFile
    \/ DownloadReturns

SpecDownload == InitS3 /\ [][NextDownload]_vars

(***************************************************************************)
(* SpecTool: calls of the tool analyze_cluster_logs of                      *)
(* src/src/tools/databricks_tools.py, one after the other.  Each call       *)
(* builds its own S3LogClient and LogAnalyzer from the configuration.       *)
(***************************************************************************)
\* an entry of list_cluster_logs with its size in MB and the object's content
ToolFile(file_name, size, content) ==
    [key |-> file_name, file_name |-> file_name, size |-> size,
     log_type |-> ClassifyLogType(file_name), content |-> content]

ToolContents == {<<"info">>, <<"oom">>, <<"fatal", "net">>}

ToolListings ==
    {<<>>}
    \cup {<<ToolFile(Stderr, 1, c)>> : c \in ToolContents}
    \cup {<<ToolFile(Stdout, 30, <<"info">>)>>}
    \cup {<<ToolFile(Stdout, 2, c1), ToolFile(Stderr, z, c2)>> :
             c1, c2 \in ToolContents, z \in {1, 30}}

ToolUnchanged ==
    UNCHANGED <<error_patterns, max_token_limit, chunk_size, calls, dedup, search,
                download, temp_dir>>

priority_types == <<"stderr", "log4j", "driver", "executor">>

\* sorted(log_files, key=lambda x: (priority_types.index(...) or 99, -x['size']))
SortToolFiles(log_files) ==
    SortedDesc(log_files,
               [i \in 1..Len(log_files) |->
                   <<IF log_files[i].log_type \in Range(priority_types)
                     THEN 0 - (CHOOSE j \in 1..Len(priority_types) :
                                  priority_types[j] = log_files[i].log_type)
                     ELSE 0 - 99,
                     log_files[i].size>>])

\* the names bound in analyze_cluster_logs and in its module: use_iterative is
\* read at the result dict and bound nowhere
BoundNames ==
    {"cluster_id", "search_pattern", "max_files", "s3_client", "analyzer", "log_files",
     "priority_types", "sorted_files", "log_content", "files_processed", "analysis"}

\* analyze_cluster_logs(cluster_id, search_pattern, max_files): entry
AnalyzeClusterLogs ==
    /\ tool.pc = "idle"
    /\ \E log_files \in ToolListings, search_pattern \in {NoQuery, "exceeded"},
          max_files \in {1, 10} :
          tool' = [NoTool EXCEPT !.pc = "list", !.log_files = log_files,
                                 !.search_pattern = search_pattern,
                                 !.max_files = max_files]
    /\ ToolUnchanged

\* list_cluster_logs raises; the outer except returns the error string
ToolListFails ==
    /\ tool.pc = "list"
    /\ tool' = [tool EXCEPT !.pc = "done", !.failed = "list",
                            !.result.kind = "Error analyzing cluster logs"]
    /\ ToolUnchanged

\* list_cluster_logs returns: no files, or the files sorted and cut to max_files
ToolListReturns ==
    /\ tool.pc = "list"
    /\ tool' = IF tool.log_files = <<>>
               THEN [tool EXCEPT !.pc = "done", !.result.kind = "No log files found"]
               ELSE [tool EXCEPT !.pc = "file", !.file = 1,
                                 !.sorted_files = Prefix(SortToolFiles(tool.log_files),
                                                         tool.max_files)]
    /\ ToolUnchanged

\* download_and_read_log(log_file['key'], max_size_mb=20) returns
ToolDownload ==
    /\ tool.pc = "file"
    /\ tool.file <= Len(tool.sorted_files)
    /\ tool.sorted_files[tool.file].size <= 20
    /\ tool' = [tool EXCEPT
                  !.file = @ + 1,
                  !.log_content = Append(@, [file_name |-> tool.sorted_files[tool.file].file_name,
                                             lines |-> tool.sorted_files[tool.file].content]),
                  !.files_processed = @ + 1]
    /\ ToolUnchanged

\* download_and_read_log raises: a warning is printed, the loop continues
ToolDownloadFails ==
    /\ tool.pc = "file"
    /\ tool.file <= Len(tool.sorted_files)
    /\ tool' = [tool EXCEPT !.file = @ + 1]
    /\ ToolUnchanged

\* after the loop: nothing read, or analyze_logs on a new LogAnalyzer and the
\* result dict, whose "analysis_method" entry reads use_iterative
ToolAnalyze ==
    /\ tool.pc = "file"
    /\ tool.file > Len(tool.sorted_files)
    /\ tool' =
          IF tool.log_content = <<>>
          THEN [tool EXCEPT !.pc = "done", !.result.kind = "Could not read any log files"]
          ELSE IF ChunkerRaises(tool.log_content, chunk_size)
          THEN [tool EXCEPT !.pc = "done", !.failed = "analysis",
                            !.result.kind = "Error analyzing cluster logs"]
          ELSE IF "use_iterative" \notin BoundNames
          THEN [tool EXCEPT !.pc = "done", !.failed = "NameError",
                            !.result.kind = "Error analyzing cluster logs"]
          ELSE Only({[tool EXCEPT
                        !.pc = "done",
                        !.result = [kind |-> "json",
                                    files_analyzed |-> tool.files_processed,
                                    analysis |-> SingleResult(chunked_logs,
                                                     AnalyzeErrors(chunked_logs, FullCatalog),
                                                     max_token_limit)]] :
                      chunked_logs \in {ChunkAndPrioritizeLogs(tool.log_content,
                                                                tool.search_pattern,
                                                                FullCatalog, chunk_size)}})
    /\ ToolUnchanged

\* the agent has the tool's string
ToolReturns ==
    /\ tool.pc = "done"
    /\ tool' = NoTool
    /\ ToolUnchanged

NextTool ==
    \/ AnalyzeClusterLogs
    \/ ToolListFails
    \/ ToolListReturns
    \/ ToolDownload
    \/ ToolDownloadFails
    \/ ToolAnalyze
    \/ ToolReturns

SpecTool == InitS3 /\ [][NextTool]_vars

(***************************************************************************)
(* Properties.                                                             *)
(***************************************************************************)
Returned(c) == calls[c].pc = "done"

IterativeCall(c) == calls[c].kind = "iterative"

\* the lines of a call's input, over all its files
InputLines(c) ==
    UNION {Range(calls[c].log_content[i].lines) : i \in 1..Len(calls[c].log_content)}

\* the ErrorSummary list that round 1 of the call produced
RoundOneErrors(c) ==
    IF calls[c].iteration_results = <<>> THEN <<>>
    ELSE SubSeq(calls[c].all_errors, 1, calls[c].iteration_results[1].errors_found)

HasCritical(errors) == \E i \in 1..Len(errors) : errors[i].severity = "critical"

\* C1: the text a summarizer returns has estimate_tokens(text) =
\* word_count * 1.3 <= max_token_limit, for every input and every limit.
C1_BudgetLaw ==
    \A c \in Calls :
        Returned(c) => calls[c].result.optimized_content * 13 <= max_token_limit * 10

\* C2: every returned error_summary is ordered by severity rank descending
\* (critical=4 > high=3 > medium=2 > low=1) and, within a severity, by
\* frequency descending.
SeverityRank(sev) ==
    CASE sev = "critical" -> 4 [] sev = "high" -> 3 [] sev = "medium" -> 2 [] OTHER -> 1

IsRanked(errors) ==
    \A i, j \in 1..Len(errors) :
        i < j =>
            \/ SeverityRank(errors[i].severity) > SeverityRank(errors[j].severity)
            \/ /\ SeverityRank(errors[i].severity) = SeverityRank(errors[j].severity)
               /\ errors[i].frequency >= errors[j].frequency

C2_RankedSummaries == \A c \in Calls : Returned(c) => IsRanked(calls[c].result.error_summary)

\* C3: when round 1 produces a critical ErrorSummary no further round is run
\* and exactly one iteration record is returned; after a later round the loop
\* ends only at max_iterations or on the token budget, critical finding or not.
C3_EarlyExit ==
    \A c \in Calls :
        /\ HasCritical(RoundOneErrors(c)) =>
              /\ Len(calls[c].iteration_results) = 1
              /\ calls[c].pc \in {"finish", "done"}
        /\ (calls[c].pc \in {"finish", "done"} /\ Len(calls[c].iteration_results) >= 2) =>
              \/ Len(calls[c].iteration_results) = calls[c].max_iterations
              \/ calls[c].token_budget < 1000 * 10

\* a call that stopped after round 1 on a critical finding although more
\* rounds were allowed and the budget was not exhausted
C3_Witness ==
    /\ Returned(1) /\ IterativeCall(1)
    /\ HasCritical(RoundOneErrors(1))
    /\ calls[1].max_iterations >= 3
    /\ calls[1].token_budget >= 1000 * 10
    /\ calls[1].result.total_iterations = 1

\* C4: an input with a FATAL ERROR line, analysed with max_iterations = 3,
\* ends with exactly 1 iteration recorded.
C4_FatalErrorOneIteration ==
    \A c \in Calls :
        (Returned(c) /\ IterativeCall(c) /\ calls[c].max_iterations = 3
            /\ "fatal" \in InputLines(c))
        => calls[c].result.total_iterations = 1

\* C5: with the default max_iterations (3), every category that has a pattern
\* match in the input text is in the returned error_summary.
DefaultMaxIterations == 3

MatchedCategories(c) ==
    {cat \in CategoryNames : \E k \in InputLines(c) : PatternMatches(cat, k) > 0}

C5_IterativeCompleteness ==
    \A c \in Calls :
        (Returned(c) /\ IterativeCall(c) /\ calls[c].max_iterations = DefaultMaxIterations)
        => MatchedCategories(c) \subseteq
              {calls[c].result.error_summary[i].error_type :
                  i \in 1..Len(calls[c].result.error_summary)}

\* C6: _deduplicate_errors returns a list without two entries of the same
\* (error_type, description), in first-seen order, each entry's frequency the
\* sum of the frequencies of the input entries with its pair.
PairOf(e) == <<e.error_type, e.description>>

FirstIndex(errors, pair) ==
    CHOOSE i \in 1..Len(errors) :
        /\ PairOf(errors[i]) = pair
        /\ \A j \in 1..(i - 1) : PairOf(errors[j]) # pair

RECURSIVE PairFrequency(_, _)
PairFrequency(errors, pair) ==
    IF errors = <<>> THEN 0
    ELSE (IF PairOf(Head(errors)) = pair THEN Head(errors).frequency ELSE 0)
         + PairFrequency(Tail(errors), pair)

C6_Deduplication ==
    dedup.pc = "return" =>
        LET in == dedup.errors
            out == dedup.unique_errors
        IN  /\ \A i, j \in 1..Len(out) : i # j => PairOf(out[i]) # PairOf(out[j])
            /\ {PairOf(out[i]) : i \in 1..Len(out)} = {PairOf(in[i]) : i \in 1..Len(in)}
            /\ \A i, j \in 1..Len(out) :
                  i < j => FirstIndex(in, PairOf(out[i])) < FirstIndex(in, PairOf(out[j]))
            /\ \A i \in 1..Len(out) :
                  /\ out[i].frequency = PairFrequency(in, PairOf(out[i]))
                  /\ [out[i] EXCEPT !.frequency = 0]
                       = [in[FirstIndex(in, PairOf(out[i]))] EXCEPT !.frequency = 0]

\* a list with a repeated pair between two other entries has been merged
C6_Witness ==
    /\ dedup.pc = "return"
    /\ Len(dedup.errors) = 3
    /\ Len(dedup.unique_errors) = 2
    /\ PairOf(dedup.errors[1]) = PairOf(dedup.errors[3])

\* C7: no call scores its chunks against a catalog subset that another call
\* installed: an iterative call scores with its own round's subset, a
\* single-pass call with the full catalog.
C7_CatalogIsolation ==
    \A c \in Calls :
        /\ (IterativeCall(c) /\ calls[c].pc \in {"analyze", "restore"})
              => calls[c].scored_patterns = calls[c].target_patterns
        /\ (calls[c].kind = "single" /\ calls[c].pc \in {"summarize", "done"})
              => calls[c].scored_patterns = FullCatalog

\* C8: round 1 searches exactly the 3 categories of highest priority weight
\* and analyzes at most 5 chunks, round 2 the top 6 and at most 10 chunks,
\* every later round the full catalog and at most 20 chunks; each round's
\* subset contains the previous round's.
TopCategories(n) ==
    {cat \in CategoryNames :
        Cardinality({d \in CategoryNames : PriorityWeight(d) > PriorityWeight(cat)}) < n}

ScheduledCategories(round) ==
    IF round = 1 THEN TopCategories(3)
    ELSE IF round = 2 THEN TopCategories(6)
    ELSE CategoryNames

ScheduledCap(round) == IF round = 1 THEN 5 ELSE IF round = 2 THEN 10 ELSE 20

RoundInProgress(c) == calls[c].pc \in {"save", "narrow", "chunk", "analyze", "restore"}

C8_RoundSchedule ==
    \A c \in Calls :
        LET records == calls[c].iteration_results
        IN  /\ \A i \in 1..Len(records) :
                  /\ Range(records[i].patterns_searched) = ScheduledCategories(i)
                  /\ Len(records[i].patterns_searched)
                       = Cardinality(ScheduledCategories(i))
                  /\ records[i].chunks_analyzed <= ScheduledCap(i)
                  /\ i > 1 => Range(records[i - 1].patterns_searched)
                                \subseteq Range(records[i].patterns_searched)
            /\ (IterativeCall(c) /\ calls[c].pc \in {"analyze", "restore"}) =>
                  /\ Range(calls[c].scored_patterns)
                       = ScheduledCategories(Len(records) + 1)
                  /\ Len(calls[c].limited_chunks) <= ScheduledCap(Len(records) + 1)

\* four rounds in which every cap was reached
C8_Witness ==
    /\ Returned(1) /\ IterativeCall(1)
    /\ Len(calls[1].iteration_results) = 4
    /\ \A i \in 1..4 : calls[1].iteration_results[i].chunks_analyzed = ScheduledCap(i)

\* C9: for every input and max_iterations >= 0 the call reaches DONE and
\* returns; it records at most max_iterations rounds, numbered 1..n, and the
\* records are only appended, never changed.
IsPrefix(s, t) == Len(s) <= Len(t) /\ SubSeq(t, 1, Len(s)) = s

RecordsBounded ==
    \A c \in Calls :
        /\ Len(calls[c].iteration_results) <= calls[c].max_iterations
        /\ \A i \in 1..Len(calls[c].iteration_results) :
              calls[c].iteration_results[i].iteration = i
        /\ (Returned(c) /\ IterativeCall(c)) =>
              /\ calls[c].result.total_iterations = Len(calls[c].iteration_results)
              /\ calls[c].result.iteration_breakdown = calls[c].iteration_results

RecordsAppendOnly ==
    \A c \in Calls :
        (calls[c].pc # "idle" /\ calls'[c].pc # "idle")
        => IsPrefix(calls[c].iteration_results, calls'[c].iteration_results)

C9_TerminationAndBound ==
    /\ []RecordsBounded
    /\ [][RecordsAppendOnly]_vars
    /\ \A c \in Calls : (IterativeCall(c) /\ ~Returned(c)) ~> Returned(c)

\* a call that used all of its three or more rounds and returned
C9_Witness ==
    /\ Returned(1) /\ IterativeCall(1)
    /\ calls[1].max_iterations >= 3
    /\ calls[1].result.total_iterations = calls[1].max_iterations

\* C10: after any round, a remaining token budget below 1000 ends the loop,
\* whatever the round; every round after the first starts with a remaining
\* budget of at least 1000.
C10_SecondaryStop ==
    \A c \in Calls :
        IterativeCall(c) =>
            /\ (Len(calls[c].iteration_results) >= 1 /\ calls[c].token_budget < 1000 * 10)
                  => calls[c].pc \in {"finish", "done"}
            /\ (RoundInProgress(c) /\ Len(calls[c].iteration_results) >= 1)
                  => calls[c].token_budget >= 1000 * 10

\* a call stopped by the budget after its second round, with rounds left
C10_Witness ==
    /\ Returned(1) /\ IterativeCall(1)
    /\ calls[1].result.total_iterations = 2
    /\ calls[1].max_iterations >= 3
    /\ calls[1].token_budget < 1000 * 10
    /\ calls[1].iteration_results[1].token_usage > 0

\* C11: prioritized_chunks of an iterative result are the (at most 15) chunks
\* of highest priority_score among all chunks analyzed in the call, in
\* non-increasing priority_score order.
Scores(chunks) == [i \in 1..Len(chunks) |-> chunks[i].priority_score]

MaxReturnedChunks == 15

C11_TopChunks ==
    \A c \in Calls :
        (Returned(c) /\ IterativeCall(c)) =>
            Scores(calls[c].result.prioritized_chunks)
              = Prefix(Scores(SortedDesc(calls[c].analyzed_chunks,
                                         ScoreKeys(calls[c].analyzed_chunks))),
                       MaxReturnedChunks)

\* C12: the line windows of a document are non-overlapping, consecutive and
\* cover every line exactly once; every window but the last has exactly N
\* lines; the emitted chunks are exactly the windows that are not empty or
\* whitespace-only, so no emitted chunk is blank.
RECURSIVE Concat(_)
Concat(ws) == IF ws = <<>> THEN <<>> ELSE Head(ws) \o Concat(Tail(ws))

IsPartition(ws, lines, n) ==
    /\ Concat(ws) = lines
    /\ \A w \in 1..Len(ws) :
          /\ Len(ws[w]) >= 1
          /\ Len(ws[w]) <= n
          /\ w < Len(ws) => Len(ws[w]) = n

BlankWindow(lines) == \A i \in 1..Len(lines) : lines[i] \in {"blank", "ws"}

\* the contents of the call's chunks of one file, in chunk_id order
EmittedOf(c, file_name) ==
    LET chunks == calls[c].limited_chunks
        mine == {i \in 1..Len(chunks) : chunks[i].file_name = file_name}
        nth(p) == CHOOSE i \in mine :
                      Cardinality({j \in mine : chunks[j].chunk_id < chunks[i].chunk_id}) = p - 1
    IN  [p \in 1..Cardinality(mine) |-> chunks[nth(p)].content]

SinglePassChunked(c) == calls[c].kind = "single" /\ calls[c].pc \in {"summarize", "done"}

\* the chunker has failed: the exception is on its way to the caller
ChunkerFailed(c) == calls[c].pc \in {"unwind", "raised"}

C12_ChunkerPartition ==
    \A c \in Calls :
        /\ ~ChunkerFailed(c)
        /\ SinglePassChunked(c) =>
            \A f \in 1..Len(calls[c].log_content) :
                LET doc == calls[c].log_content[f]
                    n == chunk_size \div 100
                    ws == Windows(doc.lines, LinesPerChunk(chunk_size))
                IN  /\ IsPartition(ws, doc.lines, n)
                    /\ EmittedOf(c, doc.file_name)
                         = SelectSeq(ws, LAMBDA w : ~BlankWindow(w))
                    /\ \A i \in 1..Len(calls[c].limited_chunks) :
                          ~BlankWindow(calls[c].limited_chunks[i].content)

\* C13: for every configured chunk size >= 1, below 100 included, the lines
\* per chunk are configured_chunk_size / 100 with a minimum of 1: the chunker
\* advances and returns chunks instead of failing.
FlooredLinesPerChunk ==
    IF chunk_size \div 100 < 1 THEN 1 ELSE chunk_size \div 100

C13_LinesPerChunkFloor ==
    \A c \in Calls :
        /\ calls[c].pc \notin {"unwind", "raised"}
        /\ (calls[c].kind = "single" /\ calls[c].pc \in {"summarize", "done"}) =>
              \A f \in 1..Len(calls[c].log_content) :
                  EmittedOf(c, calls[c].log_content[f].file_name)
                    = SelectSeq(Windows(calls[c].log_content[f].lines, FlooredLinesPerChunk),
                                LAMBDA w : ~BlankWindow(w))

\* C14: with a malformed regex in the active catalog, analyze_logs and
\* analyze_logs_iteratively skip only that pattern, evaluate the remaining
\* patterns and categories, and return a best-effort result: no exception
\* leaves the core.
SummaryTypes(errors) == {errors[i].error_type : i \in 1..Len(errors)}

\* the categories of the catalog with a match of a well-formed pattern
ValidMatches(c) ==
    {cat \in Range(error_patterns) :
        \E k \in InputLines(c) : PatternMatches(cat, k) > 0}

C14_MalformedPatternSkipped ==
    \A c \in Calls :
        /\ calls[c].pc \notin {"unwind", "raised"}
        /\ (calls[c].kind = "single" /\ Returned(c)) =>
              ValidMatches(c) \subseteq SummaryTypes(calls[c].result.error_summary)

\* C15: a failed download of any files does not abort search_error_patterns:
\* the remaining files are fetched and searched in order, their matches are
\* in the result, and the result tells which files were unreadable.
SearchDone(op) == search.op = op /\ search.pc = "done"

\* the files of the listing, in search order, whose download succeeded
ReadableFiles ==
    SelectSeq(SortLogFiles(search.bucket), LAMBDA f : f.file_name \notin search.unreadable)

RECURSIVE FoundIn(_, _, _, _)
\* what searching exactly these files, in order, merges into found
FoundIn(files, patterns_map, cap, found) ==
    IF files = <<>> THEN found
    ELSE LET file_errors == SearchPatternsInContent(Head(files).content, patterns_map,
                                                    Head(files), cap)
         IN  FoundIn(Tail(files), patterns_map, cap,
                     IF file_errors.raised THEN found
                     ELSE MergeFileErrors(found, file_errors.value, cap))

\* the file names that a dict of match lists mentions
FilesNamed(d) == UNION {{d[i].errors[j].file : j \in 1..Len(d[i].errors)} : i \in 1..Len(d)}

C15_FetchIsolation ==
    SearchDone("search") =>
        /\ search.result = FoundIn(ReadableFiles, search.error_patterns,
                                   search.max_errors_per_category,
                                   EmptyErrors(search.error_patterns))
        /\ search.unreadable \subseteq FilesNamed(search.result)

\* the part of C15 that the code does: the readable files are all searched
C15_ReadableFilesSearched ==
    SearchDone("search") =>
        search.result = FoundIn(ReadableFiles, search.error_patterns,
                                search.max_errors_per_category,
                                EmptyErrors(search.error_patterns))

\* C16: search_iterative_patterns stops after its first iteration, with one
\* record of index 1, if that iteration found critical errors; otherwise it
\* runs min(max_iterations, 3) iterations.
MaxPatternLevels == 3

\* the first level has the one category critical_errors: errors_found of the
\* first record is the length of the first iteration's critical_errors list
FirstIterationCritical(summary) == summary # <<>> /\ summary[1].errors_found > 0

C16_EarlyTermination ==
    SearchDone("iterative") =>
        LET summary == search.result.iteration_summary
        IN  /\ \A i \in 1..Len(summary) : summary[i].iteration = i
            /\ IF FirstIterationCritical(summary)
               THEN Len(summary) = 1
               ELSE Len(summary) = Min(search.max_iterations, MaxPatternLevels)

C16_Witness ==
    /\ SearchDone("iterative")
    /\ search.max_iterations >= 2
    /\ FirstIterationCritical(search.result.iteration_summary)
    /\ Len(search.result.iteration_summary) = 1
    /\ search.result.iteration_summary[1].iteration = 1

\* without critical errors in the first iteration, three iterations ran
C16_WitnessFull ==
    /\ SearchDone("iterative")
    /\ search.max_iterations > MaxPatternLevels
    /\ ~FirstIterationCritical(search.result.iteration_summary)
    /\ Len(search.result.iteration_summary) = MaxPatternLevels
    /\ search.result.total_errors > 0

\* C17: _search_patterns_in_content with malformed regexes in the pattern map
\* does not raise, its result has every category key of the map, and the
\* valid patterns listed after a malformed one are still searched.
WellFormedOnly(patterns_map) ==
    [i \in 1..Len(patterns_map) |->
        [patterns_map[i] EXCEPT
            !.patterns = SelectSeq(@, LAMBDA p : PatternOutcome(p) = "match")]]

C17_InvalidRegexHandled ==
    search.op = "content" =>
        /\ search.pc # "raised"
        /\ search.pc = "done" =>
              /\ DictKeys(search.result) = DictKeys(search.error_patterns)
              /\ Returns(search.result) =
                    SearchPatternsInContent(search.content,
                                            WellFormedOnly(search.error_patterns),
                                            LogFile(Stderr, search.content),
                                            search.max_errors_per_category)

\* C18: search_error_patterns without custom patterns, on a readable log with
\* a java.lang.OutOfMemoryError line and a "Job 123 failed" line, returns the
\* keys memory_errors and job_failures, each with at least one match.
C18_DefaultCategories ==
    ( /\ SearchDone("search")
      /\ search.custom_patterns = <<>>
      /\ \E i \in 1..Len(ReadableFiles) :
            {"oom", "jobfail"} \subseteq Range(ReadableFiles[i].content) ) =>
        /\ DictGet(search.result, "memory_errors") # <<>>
        /\ DictGet(search.result, "job_failures") # <<>>

\* C19: a chunk whose content matches no pattern of the active catalog has
\* no error indicators, and its priority_score is the role weight of its
\* document plus the generic-keyword contribution only.
FreshlyScored(c) == calls[c].pc \in {"analyze", "summarize"}

\* the chunk matches no pattern of the catalog it was scored under
MatchesNothing(chunk, catalog) ==
    \A i \in 1..Len(catalog) : ContentMatches(catalog[i], chunk.content) = 0

C19_NoMatchScore ==
    \A c \in Calls : FreshlyScored(c) =>
        \A i \in 1..Len(calls[c].limited_chunks) :
            LET chunk == calls[c].limited_chunks[i]
            IN  MatchesNothing(chunk, calls[c].scored_patterns) =>
                   /\ chunk.error_indicators = <<>>
                   /\ chunk.priority_score = LogTypeWeight(chunk.log_type)
                                             + ContentKeywordScore(chunk.content)

\* C19 as the code has it: the search term, when one is supplied, adds 2.0 for
\* each of its occurrences in the chunk; no category term is added.
SearchTermScore(chunk, search_query) ==
    IF search_query = NoQuery THEN 0
    ELSE QueryWeight * ContentQueryMatches(search_query, chunk.content)

C19_NoMatchScoreWithSearchTerm ==
    \A c \in Calls : FreshlyScored(c) =>
        \A i \in 1..Len(calls[c].limited_chunks) :
            LET chunk == calls[c].limited_chunks[i]
            IN  MatchesNothing(chunk, calls[c].scored_patterns) =>
                   /\ chunk.error_indicators = <<>>
                   /\ chunk.priority_score = LogTypeWeight(chunk.log_type)
                                             + SearchTermScore(chunk, calls[c].search_query)
                                             + ContentKeywordScore(chunk.content)

\* a chunk without a match of the active catalog that holds the search term
C19_Witness ==
    \E c \in Calls :
        /\ FreshlyScored(c)
        /\ \E i \in 1..Len(calls[c].limited_chunks) :
              LET chunk == calls[c].limited_chunks[i]
              IN  /\ MatchesNothing(chunk, calls[c].scored_patterns)
                  /\ SearchTermScore(chunk, calls[c].search_query) > 0
                  /\ chunk.priority_score > LogTypeWeight(chunk.log_type)

\* C20: _analyze_errors returns exactly one ErrorSummary for each category of
\* the active catalog that is among the error_indicators of at least one
\* chunk of its list, none for any other category, and the summary's
\* frequency is the number of chunks of the list that carry the indicator.
Carriers(chunks, cat) ==
    {j \in 1..Len(chunks) : cat \in Range(chunks[j].error_indicators)}

CategorizerCounts(summaries, chunks, catalog) ==
    /\ \A cat \in Range(catalog) :
          Carriers(chunks, cat) # {} =>
             /\ Cardinality({i \in 1..Len(summaries) : summaries[i].error_type = cat}) = 1
             /\ \A i \in 1..Len(summaries) :
                   summaries[i].error_type = cat =>
                      summaries[i].frequency = Cardinality(Carriers(chunks, cat))
    /\ \A i \in 1..Len(summaries) :
          /\ summaries[i].error_type \in Range(catalog)
          /\ Carriers(chunks, summaries[i].error_type) # {}

\* the call has just run _analyze_errors on limited_chunks
Categorized(c) ==
    \/ calls[c].kind = "iterative" /\ calls[c].pc = "restore"
    \/ calls[c].kind = "single" /\ calls[c].pc = "done"

CategorizerOutput(c) ==
    IF calls[c].kind = "single" THEN calls[c].result.error_summary
    ELSE calls[c].error_summary

\* every step that runs _analyze_errors: the catalog is self.error_patterns
\* as the step finds it
C20_CategorizerCounts ==
    [][\A c \in Calls :
          (calls[c].pc \in {"analyze", "summarize"} /\ Categorized(c)') =>
              CategorizerCounts(CategorizerOutput(c)', calls[c].limited_chunks,
                                error_patterns)]_vars

\* a category carried by two chunks of the list
C20_Witness ==
    \E c \in Calls :
        /\ Categorized(c)
        /\ Len(calls[c].limited_chunks) >= 2
        /\ \E i \in 1..Len(CategorizerOutput(c)) : CategorizerOutput(c)[i].frequency = 2

\* C21: in every round of analyze_logs_iteratively, the categories among a
\* chunk's error_indicators and the ErrorSummary entries of the round belong
\* to the round's narrowed catalog subset, and a chunk's error_indicators
\* name a category at most once.
NoRepeats(s) == \A i, j \in 1..Len(s) : s[i] = s[j] => i = j

\* the call is inside a round and has chunked (and, at "restore", analyzed)
RoundChunked(c) == IterativeCall(c) /\ calls[c].pc \in {"analyze", "restore"}

C21_ActiveCatalog ==
    \A c \in Calls :
        /\ RoundChunked(c) =>
              \A i \in 1..Len(calls[c].limited_chunks) :
                  /\ Range(calls[c].limited_chunks[i].error_indicators)
                        \subseteq Range(calls[c].target_patterns)
                  /\ NoRepeats(calls[c].limited_chunks[i].error_indicators)
        /\ (IterativeCall(c) /\ calls[c].pc = "restore") =>
              SummaryTypes(calls[c].error_summary) \subseteq Range(calls[c].target_patterns)

\* a round-1 chunk that matches a category outside the round's subset and
\* carries no indicator for it
C21_Witness ==
    \E c \in Calls :
        /\ RoundChunked(c)
        /\ calls[c].iteration = 0
        /\ \E i \in 1..Len(calls[c].limited_chunks) :
              LET chunk == calls[c].limited_chunks[i]
              IN  /\ chunk.error_indicators # <<>>
                  /\ \E cat \in Range(FullCatalog) \ Range(calls[c].target_patterns) :
                        ContentMatches(cat, chunk.content) > 0

\* C22: the role of a file name is the first of stderr, stdout, log4j,
\* driver, executor that its lower-cased name contains; with none of them the
\* analyzer says unknown and the listing says compressed for a .gz suffix and
\* unknown otherwise; on a name with a role substring the two agree.
RoleOrder == <<"stderr", "stdout", "log4j", "driver", "executor">>

LowerName(file_name) == [i \in 1..Len(file_name) |-> Lower(file_name[i])]

HasRole(file_name) == Range(LowerName(file_name)) \cap Range(RoleOrder) # {}

\* the first role of RoleOrder among the parts of the lower-cased name
FirstRole(file_name) ==
    RoleOrder[CHOOSE i \in 1..Len(RoleOrder) :
                 /\ RoleOrder[i] \in Range(LowerName(file_name))
                 /\ \A j \in 1..(i - 1) : RoleOrder[j] \notin Range(LowerName(file_name))]

Classified == search.op = "classify" /\ search.pc = "done"

C22_RoleClassification ==
    Classified =>
        LET file_name == search.bucket[1].file_name
            analyzer == search.result[1]
            listing == search.bucket[1].log_type
        IN  IF HasRole(file_name)
            THEN analyzer = FirstRole(file_name) /\ listing = analyzer
            ELSE /\ analyzer = "unknown"
                 /\ listing = IF LowerName(file_name)[Len(file_name)] = "gz"
                              THEN "compressed" ELSE "unknown"

\* a mixed-case name with two role substrings, the later role of the order
\* first in the name
C22_Witness ==
    /\ Classified
    /\ search.bucket[1].file_name = <<"Driver", "STDERR">>
    /\ search.result[1] = "stderr"
    /\ search.bucket[1].log_type = "stderr"

\* C23: one call after the other on an analyzer, the catalog is narrowed only
\* inside _analyze_iteration: whenever no round is under way, after a round
\* that returned as after one that raised, self.error_patterns is the full
\* catalog of 12 categories; inside a round the saved catalog is the full one,
\* and an analyze_logs call scores under all 12 categories.
InsideRound(c) == calls[c].pc \in {"chunk", "analyze", "restore", "unwind"}

C23_CatalogRestored ==
    /\ (\A c \in Calls : ~InsideRound(c)) => error_patterns = FullCatalog
    /\ \A c \in Calls :
          /\ InsideRound(c) => calls[c].original_patterns = FullCatalog
          /\ (calls[c].kind = "single" /\ calls[c].pc = "summarize") =>
                /\ calls[c].scored_patterns = FullCatalog
                /\ Len(calls[c].scored_patterns) = 12

\* a round narrowed the catalog, raised, and left the full catalog behind
C23_Witness ==
    \E c \in Calls :
        /\ calls[c].kind = "iterative"
        /\ calls[c].pc = "raised"
        /\ calls[c].original_patterns = FullCatalog
        /\ calls[c].target_patterns # FullCatalog
        /\ error_patterns = FullCatalog

\* C24: once two interleaved iterative calls on one analyzer have both
\* finished, self.error_patterns is the full catalog again.
BothFinished == \A c \in Calls : IterativeCall(c) /\ calls[c].pc = "done"

C24_CatalogAfterConcurrentCalls == BothFinished => error_patterns = FullCatalog

\* C25: in the error_summary an iterative call returns, the frequency of a
\* category is at most the number of chunks of the input that carry the
\* category's indicator, however many rounds analyzed a chunk.
InputChunks(c) ==
    ChunkAndPrioritizeLogs(calls[c].log_content, calls[c].search_query,
                           FullCatalog, chunk_size)

RecordedUsage(c) ==
    [k \in 1..Len(calls[c].iteration_results) |-> calls[c].iteration_results[k].token_usage]

\* the budget that remained when round k started
BudgetBefore(c, k) == Tokens(max_token_limit) - SumSeq(SubSeq(RecordedUsage(c), 1, k - 1))

RECURSIVE AllMatches(_, _, _, _)
\* every match of a category's well-formed patterns in one file
AllMatches(patterns, content, log_file, category) ==
    IF patterns = <<>> THEN <<>>
    ELSE (IF PatternOutcome(Head(patterns)) = "match"
          THEN PatternMatchRecords(Head(patterns), content, log_file, category)
          ELSE <<>>)
         \o AllMatches(Tail(patterns), content, log_file, category)

\* the readable files, in priority order, whose search did not raise
SearchedFiles ==
    SelectSeq(ReadableFiles,
              LAMBDA f : ~SearchPatternsInContent(f.content, search.error_patterns, f,
                                                  search.max_errors_per_category).raised)

RECURSIVE AllFound(_, _)
\* every match of entry `entry` of the pattern map in these files, in order
AllFound(files, entry) ==
    IF files = <<>> THEN <<>>
    ELSE AllMatches(entry.patterns, Head(files).content, Head(files), entry.category)
         \o AllFound(Tail(files), entry)

C27_PerCategoryCap ==
    /\ SearchDone("search") =>
          \A i \in 1..Len(search.result) :
              /\ Len(search.result[i].errors) <= search.max_errors_per_category
              /\ search.result[i].errors =
                    Prefix(AllFound(SearchedFiles, search.error_patterns[i]),
                           search.max_errors_per_category)
    /\ SearchDone("content") =>
          \A i \in 1..Len(search.result) :
              /\ Len(search.result[i].errors) <= search.max_errors_per_category
              /\ search.result[i].errors =
                    Prefix(AllMatches(search.error_patterns[i].patterns, search.content,
                                      LogFile(Stderr, search.content),
                                      search.error_patterns[i].category),
                           search.max_errors_per_category)

\* cap 1, stdout listed before stderr, both with a match of one category: the
\* one entry kept is the match in stderr
C27_Witness ==
    /\ SearchDone("search")
    /\ search.max_errors_per_category = 1
    /\ Len(search.bucket) = 2
    /\ search.bucket[1].log_type = "stdout"
    /\ search.unreadable = {}
    /\ \E i \in 1..Len(search.result) :
          /\ Len(AllFound(SearchedFiles, search.error_patterns[i])) >= 3
          /\ AllFound(<<search.bucket[1]>>, search.error_patterns[i]) # <<>>
          /\ Len(search.result[i].errors) = 1
          /\ search.result[i].errors[1].file_type = "stderr"

\* C28: in the errors_by_category that search_iterative_patterns returns no
\* match (same file, same pattern, same position) is listed twice in a
\* category, and total_errors is the number of distinct matches.
MatchOf(error) == <<error.file, error.pattern, error.line_number>>

DistinctMatches(d) ==
    UNION {{<<d[i].category, MatchOf(d[i].errors[j])>> : j \in 1..Len(d[i].errors)} :
              i \in 1..Len(d)}

C28_NoDuplicateMatches ==
    SearchDone("iterative") =>
        /\ \A i \in 1..Len(search.result.errors_by_category) :
              LET errors == search.result.errors_by_category[i].errors
              IN  \A j, k \in 1..Len(errors) : MatchOf(errors[j]) = MatchOf(errors[k]) => j = k
        /\ search.result.total_errors =
              Cardinality(DistinctMatches(search.result.errors_by_category))

\* C29: when download_and_read_log returns or raises, the temporary file it
\* created, if any, is gone: on a successful read, on a decode failure and
\* on a failed download; and an object larger than max_size_mb is rejected as
\* too large with no temporary file created and no download started.
DownloadEnded == download.pc \in {"done", "raised"}

C29_TempFileCleanup ==
    DownloadEnded =>
        /\ download.temp_file_path \notin temp_dir
        /\ download.file_size > download.max_size_mb * Megabyte =>
              /\ download.error = "too large"
              /\ download.temp_file_path = NoDownload.temp_file_path

\* C30: when at least one listed file was read, analyze_cluster_logs returns
\* the JSON result (cluster_id, files_analyzed, analysis); it returns the
\* string "Error analyzing cluster logs" only when the listing or the
\* analysis failed.
C30_ReturnsAnalysis ==
    tool.pc = "done" =>
        /\ tool.files_processed > 0 =>
              /\ tool.result.kind = "json"
              /\ tool.result.files_analyzed = tool.files_processed
        /\ tool.result.kind = "Error analyzing cluster logs" =>
              tool.failed \in {"list", "analysis"}

====
